---- MODULE Spec2Model ----
(***************************************************************************)
(* Model of the analytics engine of inflation_tracker                       *)
(* (app/service/analytics.py) together with the purchase store it reads     *)
(* (app/service/purchases.py, app/CRUD/purchases.py, app/models).           *)
(*                                                                          *)
(* Numbers.  Quantities are stored as Numeric(12,3) and money as            *)
(* Numeric(12,2); the model keeps them as integers of thousandths and of    *)
(* cents.  Everything the engine computes is a Python/numpy float; the      *)
(* model keeps such a value as a rational <<n, d>> in lowest terms and      *)
(* passes the significand width P of the arithmetic to every operation:     *)
(* P = 0 is real (unrounded) arithmetic, P > 0 rounds the result of every   *)
(* single operation to the nearest value with a P-bit significand, ties to  *)
(* even, as IEEE-754 does for binary64 with P = 53.                         *)
(*                                                                          *)
(* Optional values: None is the empty tuple, a present value x is <<x>>.    *)
(***************************************************************************)
EXTENDS Integers, Sequences, FiniteSets, TLC

VARIABLES db, result, catalog

vars == <<db, result, catalog>>

None == << >>

Some(x) == <<x>>

IsNone(o) == o = << >>

Val(o) == o[1]

----------------------------------------------------------------------------
(* Bounds of the model.                                                     *)

\* largest number of purchases held by the store
MaxRows == 4

\* significand width of the rounded arithmetic of SpecFP
MantBits == 6

----------------------------------------------------------------------------
(* Exact rationals and rounded floating-point operations.                   *)

Abs(x) == IF x < 0 THEN -x ELSE x

RECURSIVE GCD(_, _)
GCD(a, b) == IF b = 0 THEN a ELSE GCD(b, a % b)

\* n/d (g the greatest common divisor of n and d) in lowest terms with a
\* positive denominator
Reduced(n, d, g) ==
    IF d < 0 THEN <<(-n) \div g, (-d) \div g>> ELSE <<n \div g, d \div g>>

\* the rational n/d in lowest terms with a positive denominator
Rat(n, d) == Reduced(n, d, GCD(Abs(n), Abs(d)))

Zero == <<0, 1>>

One == <<1, 1>>

Hundred == <<100, 1>>

RLt(a, b) == a[1] * b[2] < b[1] * a[2]

RLe(a, b) == a[1] * b[2] <= b[1] * a[2]

RPos(a) == a[1] > 0

Pow2(k) == 2 ^ k

\* the integer nearest to q + r/d (0 <= r < d), ties to even
HalfEven(q, r, d) ==
    IF 2 * r < d THEN q
    ELSE IF 2 * r > d THEN q + 1
    ELSE IF q % 2 = 0 THEN q ELSE q + 1

\* a/d (a >= 0, d > 0) rounded to the nearest integer, ties to even
RoundHalfEven(a, d) == HalfEven(a \div d, a % d, d)

\* the binary exponent e of a/d (a > 0, d > 0) for a P-bit significand:
\* 2^(P-1) <= (a/d) / 2^e < 2^P
RECURSIVE Exponent(_, _, _)
Exponent(a, d, P) ==
    IF a >= (2 ^ P) * d THEN Exponent(a, 2 * d, P) + 1
    ELSE IF a < (2 ^ (P - 1)) * d THEN Exponent(2 * a, d, P) - 1
    ELSE 0

\* a/d rounded to an integer multiple of 2^e, ties to even
RoundAt(a, d, e) ==
    IF e >= 0 THEN <<(2 ^ e) * RoundHalfEven(a, (2 ^ e) * d), 1>>
    ELSE Rat(RoundHalfEven((2 ^ (-e)) * a, d), 2 ^ (-e))

\* a/d (a > 0, d > 0) rounded to a P-bit significand, ties to even
RoundSig(a, d, P) == RoundAt(a, d, Exponent(a, d, P))

\* r with the sign of n
Signed(n, r) == IF n < 0 THEN <<-r[1], r[2]>> ELSE r

\* the float nearest to the rational q; the identity when P = 0
Rnd(P, q) ==
    IF P = 0 \/ q[1] = 0 THEN q
    ELSE Signed(q[1], RoundSig(Abs(q[1]), q[2], P))

FAdd(P, a, b) == Rnd(P, Rat(a[1] * b[2] + b[1] * a[2], a[2] * b[2]))

FSub(P, a, b) == Rnd(P, Rat(a[1] * b[2] - b[1] * a[2], a[2] * b[2]))

FMul(P, a, b) == Rnd(P, Rat(a[1] * b[1], a[2] * b[2]))

\* b # 0
FDiv(P, a, b) == Rnd(P, Rat(a[1] * b[2], a[2] * b[1]))

\* Series.sum: the values added one after another
RECURSIVE FSum(_, _)
FSum(P, s) ==
    IF Len(s) = 0 THEN Zero
    ELSE IF Len(s) = 1 THEN s[1]
    ELSE FAdd(P, FSum(P, SubSeq(s, 1, Len(s) - 1)), s[Len(s)])

\* the sum of a group as groupby(...).agg(..., 'sum') accumulates it, with
\* a running compensation of the rounding error: <<sumx, compensation>>
RECURSIVE Kahan(_, _)
Kahan(P, s) ==
    IF Len(s) = 0 THEN <<Zero, Zero>>
    ELSE LET OnT(sumx, y, t) == <<t, FSub(P, FSub(P, t, sumx), y)>>
             OnY(sumx, y) == OnT(sumx, y, FAdd(P, sumx, y))
             OnPrev(k) == OnY(k[1], FSub(P, s[Len(s)], k[2]))
         IN  OnPrev(Kahan(P, SubSeq(s, 1, Len(s) - 1)))

\* groupby(...).agg(..., 'sum') of one group, in row order
GroupSum(P, s) == Kahan(P, s)[1]

----------------------------------------------------------------------------
(* Calendar.  A date is its number of days since 1970-01-01.                *)

DaysFromCivil(y, m, d) ==
    LET yy  == IF m <= 2 THEN y - 1 ELSE y
        era == yy \div 400
        yoe == yy - era * 400
        mp  == IF m > 2 THEN m - 3 ELSE m + 9
        doy == (153 * mp + 2) \div 5 + d - 1
        doe == yoe * 365 + yoe \div 4 - yoe \div 100 + doy
    IN  era * 146097 + doe - 719468

\* <<year, month, day>> of a day number: the fields of its ISO string
CivilFromDays(z) ==
    LET zz  == z + 719468
        era == zz \div 146097
        doe == zz - era * 146097
        yoe == (doe - doe \div 1460 + doe \div 36524 - doe \div 146096) \div 365
        doy == doe - (365 * yoe + yoe \div 4 - yoe \div 100)
        mp  == (5 * doy + 2) \div 153
        d   == doy - (153 * mp + 2) \div 5 + 1
        m   == IF mp < 10 THEN mp + 3 ELSE mp - 9
        y   == yoe + era * 400
    IN  <<IF m <= 2 THEN y + 1 ELSE y, m, d>>

\* Weekday counting from Sunday = 0
Weekday_sunday(z) == (z + 4) % 7

\* Monday = 0 ... Sunday = 6
Weekday(z) == (z + 3) % 7

----------------------------------------------------------------------------
(* The catalogue the purchases refer to (rows of the product, category and  *)
(* store tables; the engine only reads them through Purchase.to_dict).      *)

Products == {1, 2, 3}

Stores == {1, 2}

\* Product.category_id: products 1 and 2 share category 1, product 3 has none
ProductCategory(p) == IF p \in {1, 2} THEN Some(1) ELSE None

\* Product.unit_id: products 1 and 2 share unit 1, product 3 has unit 2
ProductUnit(p) == IF p \in {1, 2} THEN 1 ELSE 2

\* the tables of products, stores, units and categories the purchases
\* refer to; unit 3 and category 2 have no product
Catalog0 ==
    [products   |-> {[id |-> p, category_id |-> ProductCategory(p),
                      unit_id |-> ProductUnit(p)] : p \in {1, 2, 3}},
     stores     |-> Stores,
     units      |-> {1, 2, 3},
     categories |-> {1, 2}]

ProductName(p) == IF p = 1 THEN "milk" ELSE IF p = 2 THEN "bread" ELSE "water"

CategoryName(c) == "food"

StoreName(s) == IF s = 1 THEN "north" ELSE "south"

\* date.today() of the run
Today == DaysFromCivil(2025, 3, 31)

----------------------------------------------------------------------------
(* Small sequence helpers.                                                  *)

SeqMap(F(_), s) == [i \in 1..Len(s) |-> F(s[i])]

SetMin(S) == CHOOSE x \in S : \A y \in S : x <= y

\* SortedSeq in descending order
RECURSIVE SortedSeq_desc(_)
SortedSeq_desc(S) ==
    IF S = {} THEN << >>
    ELSE LET m == CHOOSE x \in S : \A y \in S : x >= y
         IN  <<m>> \o SortedSeq_desc(S \ {m})

\* the elements of a finite set of integers in ascending order
RECURSIVE SortedSeq(_)
SortedSeq(S) ==
    IF S = {} THEN << >>
    ELSE LET m == SetMin(S) IN <<m>> \o SortedSeq(S \ {m})

Range(s) == {s[i] : i \in 1..Len(s)}

\* a stable sort (ORDER BY, sort_values): x precedes y when Before(x, y),
\* and elements neither of which is before the other keep their order
SortValues(s, Before(_, _)) ==
    LET rank(i) == Cardinality({j \in 1..Len(s) :
                       \/ Before(s[j], s[i])
                       \/ ~Before(s[i], s[j]) /\ j < i})
    IN  [k \in 1..Len(s) |-> s[CHOOSE i \in 1..Len(s) : rank(i) = k - 1]]

----------------------------------------------------------------------------
(* app/validate/validators.py                                               *)

\* a validator that lets zero pass
validate_positive_value_nonneg(value) == value >= 0

\* validate_positive_value: TRUE when the value passes
validate_positive_value(value) == value > 0

\* validate_date_not_in_future: None when it raises, else the date to use
validate_date_not_in_future(value) ==
    IF IsNone(value) THEN Some(Today)
    ELSE IF Val(value) > Today THEN None
    ELSE value

\* validate_date_range: TRUE when it returns, FALSE when it raises ValueError
validate_date_range(date_from, date_to) ==
    ~(~IsNone(date_from) /\ ~IsNone(date_to) /\ Val(date_from) > Val(date_to))

----------------------------------------------------------------------------
(* app/models/purchase.py                                                   *)

\* unit_price giving the total price of the purchase
unit_price_total(p) == p.total_price

\* Purchase.unit_price in cents: total_price / quantity quantized to 0.01
\* with the decimal module's default rounding (ROUND_HALF_EVEN)
unit_price(p) ==
    IF p.quantity = 0 THEN 0
    ELSE RoundHalfEven(p.total_price * 1000, p.quantity)

\* Purchase.to_dict: the row of the DataFrame, numbers converted by float()
to_dict(p, P) ==
    [id                 |-> p.id,
     purchase_date      |-> p.purchase_date,
     product_id         |-> p.product_id,
     product            |-> ProductName(p.product_id),
     category           |-> IF IsNone(ProductCategory(p.product_id)) THEN None
                            ELSE Some(CategoryName(
                                     Val(ProductCategory(p.product_id)))),
     category_id        |-> ProductCategory(p.product_id),
     store_id           |-> p.store_id,
     store              |-> StoreName(p.store_id),
     quantity           |-> Rnd(P, Rat(p.quantity, 1000)),
     unit_price         |-> Rnd(P, Rat(unit_price(p), 100)),
     is_promo           |-> p.is_promo,
     regular_unit_price |-> IF IsNone(p.regular_unit_price) THEN None
                            ELSE Some(Rnd(P,
                                     Rat(Val(p.regular_unit_price), 100)))]

----------------------------------------------------------------------------
(* app/CRUD/purchases.py and app/service/purchases.py                       *)

\* FilterMatches without its to_date condition
FilterMatches_no_to_date(p, f) ==
    /\ IsNone(f.category_id)
          \/ ProductCategory(p.product_id) = f.category_id
    /\ IsNone(f.store_id) \/ p.store_id = Val(f.store_id)
    /\ IsNone(f.product_id) \/ p.product_id = Val(f.product_id)
    /\ IsNone(f.product_ids) \/ Val(f.product_ids) = {}
          \/ p.product_id \in Val(f.product_ids)
    /\ IsNone(f.is_promo) \/ p.is_promo = Val(f.is_promo)
    /\ IsNone(f.from_date) \/ p.purchase_date >= Val(f.from_date)

\* the WHERE clause of PurchaseCRUD.list_filtered for one purchase
FilterMatches(p, f) ==
    /\ IsNone(f.category_id)
          \/ ProductCategory(p.product_id) = f.category_id
    /\ IsNone(f.store_id) \/ p.store_id = Val(f.store_id)
    /\ IsNone(f.product_id) \/ p.product_id = Val(f.product_id)
    /\ IsNone(f.product_ids) \/ Val(f.product_ids) = {}
          \/ p.product_id \in Val(f.product_ids)
    /\ IsNone(f.is_promo) \/ p.is_promo = Val(f.is_promo)
    /\ IsNone(f.from_date) \/ p.purchase_date >= Val(f.from_date)
    /\ IsNone(f.to_date) \/ p.purchase_date <= Val(f.to_date)

\* PurchaseCRUD.list_filtered: the matching purchases ordered by date
list_filtered(store, f) ==
    SortValues(SelectSeq(store, LAMBDA p : FilterMatches(p, f)),
               LAMBDA x, y : x.purchase_date < y.purchase_date)

\* list_purchases_filtered: None when validate_date_range raises ValueError,
\* else the purchases the repository returns
list_purchases_filtered(store, f) ==
    IF ~validate_date_range(f.from_date, f.to_date) THEN None
    ELSE Some(list_filtered(store, f))

----------------------------------------------------------------------------
(* app/service/analytics.py: validation of the literals                     *)

_ensure_group_by(group_by) == group_by \in {"day", "week", "month", "year"}

_ensure_price_mode(price_mode) == price_mode \in {"paid", "regular"}

\* _ensure_promo_mode with a literal too many
_ensure_promo_mode_any(promo_mode) ==
    promo_mode \in {"include", "exclude", "only", "all"}

_ensure_promo_mode(promo_mode) == promo_mode \in {"include", "exclude", "only"}

----------------------------------------------------------------------------
(* app/service/analytics.py: the row normalizer and the period bucketer     *)

\* _period_start for one date
_period_start(d, group_by) ==
    LET c == CivilFromDays(d)
    IN  IF group_by = "day" THEN d
        ELSE IF group_by = "week" THEN d - Weekday(d)
        ELSE IF group_by = "month" THEN DaysFromCivil(c[1], c[2], 1)
        ELSE DaysFromCivil(c[1], 1, 1)

\* _purchases_to_df
_purchases_to_df(purchases, P) == SeqMap(LAMBDA p : to_dict(p, P), purchases)

\* promo counting a row without the is_promo cell as on promotion
promo_missing_true(r) == IF "is_promo" \in DOMAIN r THEN r.is_promo ELSE TRUE

\* df['is_promo'].fillna(False).astype(bool) for one row: a row without
\* the cell counts as not on promotion
promo(r) == IF "is_promo" \in DOMAIN r THEN r.is_promo ELSE FALSE

\* _apply_promo_filter leaving the filtering for only to the repository
_apply_promo_filter_trusting(df, promo_mode) ==
    IF promo_mode = "exclude" THEN SelectSeq(df, LAMBDA r : ~promo(r))
    ELSE df

\* _apply_promo_filter
_apply_promo_filter(df, promo_mode) ==
    IF promo_mode = "include" THEN df
    ELSE IF promo_mode = "exclude" THEN SelectSeq(df, LAMBDA r : ~promo(r))
    ELSE SelectSeq(df, LAMBDA r : promo(r))

\* a cell holding text that is not a number
Text == <<0, 0>>

\* pd.to_numeric(errors='coerce') of a cell: NaN (None) for a missing cell
\* and for text
to_numeric(x) == IF IsNone(x) \/ x = Text THEN None ELSE x

\* IsPositive letting zero pass
IsPositive_or_zero(x) == ~IsNone(x) /\ x[1] >= 0

\* notna() & (> 0)
IsPositive(x) == ~IsNone(x) /\ RPos(x)

\* UnitPriceUsed taking the regular price, where there is one, in both
\* price modes
UnitPriceUsed_regular_first(r, price_mode) ==
    IF ~IsNone(r.regular_unit_price)
       /\ ~IsNone(to_numeric(Val(r.regular_unit_price)))
    THEN Val(r.regular_unit_price)
    ELSE to_numeric(r.unit_price)

\* the unit price _compute_price_and_spend uses for one row:
\* to_numeric(unit_price) when paid, else reg.fillna(paid)
UnitPriceUsed(r, price_mode) ==
    IF price_mode = "paid" THEN to_numeric(r.unit_price)
    ELSE IF ~IsNone(r.regular_unit_price)
            /\ ~IsNone(to_numeric(Val(r.regular_unit_price)))
    THEN Val(r.regular_unit_price)
    ELSE to_numeric(r.unit_price)

\* _compute_price_and_spend: rows with quantity > 0 and unit_price_used > 0,
\* extended by unit_price_used and spend
_compute_price_and_spend(df, price_mode, P) ==
    LET q  == SelectSeq(df, LAMBDA r : IsPositive(to_numeric(r.quantity)))
        ok == SelectSeq(q, LAMBDA r :
                 IsPositive(UnitPriceUsed(r, price_mode)))
    IN  SeqMap(LAMBDA r :
                 [id              |-> r.id,
                  purchase_date   |-> r.purchase_date,
                  product_id      |-> r.product_id,
                  product         |-> r.product,
                  category_id     |-> r.category_id,
                  category        |-> r.category,
                  store_id        |-> r.store_id,
                  store           |-> r.store,
                  quantity        |-> r.quantity,
                  is_promo        |-> r.is_promo,
                  unit_price_used |-> UnitPriceUsed(r, price_mode),
                  spend           |-> FMul(P, UnitPriceUsed(r, price_mode),
                                           r.quantity),
                  period          |-> 0],
               ok)

\* _prepare_df_for_index: None when the fetch raises, else the prepared rows
_prepare_df_for_index(store, a, P) ==
    LET is_promo_db == IF a.promo_mode = "only" THEN Some(TRUE) ELSE None
        purchases == list_purchases_filtered(store,
                        [from_date   |-> a.from_date,
                         to_date     |-> a.to_date,
                         store_id    |-> a.store_id,
                         product_id  |-> a.product_id,
                         product_ids |-> a.product_ids,
                         category_id |-> a.category_id,
                         is_promo    |-> is_promo_db])
    IN  IF IsNone(purchases) THEN None
        ELSE LET df0 == _purchases_to_df(Val(purchases), P)
                 df1 == _apply_promo_filter(df0, a.promo_mode)
                 df2 == _compute_price_and_spend(df1, a.price_mode, P)
             IN  Some(SeqMap(LAMBDA r :
                        [r EXCEPT !.period =
                            _period_start(r.purchase_date, a.group_by)],
                        df2))

----------------------------------------------------------------------------
(* Results.  A call returns [raised, fetches, points, kpi]: raised is the   *)
(* exception that left the call ("" when it returned), fetches the number   *)
(* of calls of list_purchases_filtered it made.                             *)

Raise(exc, n) == [raised |-> exc, fetches |-> n, points |-> << >>, kpi |-> None]

Return(points, kpi) ==
    [raised |-> "", fetches |-> 1, points |-> points, kpi |-> kpi]

\* str(date) / date.isoformat(): the fields of the ISO string
IsoDate(d) == CivilFromDays(d)

\* the distinct values of a column, ascending (the groups of a groupby)
Keys(df, Col(_)) == SortedSeq({Col(df[i]) : i \in 1..Len(df)})

\* groupby sum of a column over the rows of a group, in row order
ColSum(P, df, Col(_)) == GroupSum(P, SeqMap(Col, df))

----------------------------------------------------------------------------
(* product_inflation_index                                                  *)

\* the per-period aggregate of product_inflation_index, periods ascending,
\* periods without positive quantity and spend removed
ProductAgg(df, P) ==
    LET agg == SeqMap(LAMBDA t :
                 LET g == SelectSeq(df, LAMBDA r : r.period = t)
                 IN  [period |-> t,
                      spend  |-> ColSum(P, g, LAMBDA r : r.spend),
                      qty    |-> ColSum(P, g, LAMBDA r : r.quantity),
                      n      |-> Len(g)],
                 Keys(df, LAMBDA r : r.period))
    IN  SelectSeq(agg, LAMBDA g : RPos(g.qty) /\ RPos(g.spend))

\* ProductPoint with inflation_pct_from_base as a fraction of the base
\* price instead of index points
ProductPoint_fraction(g, base_price, P) ==
    LET avg_unit_price == FDiv(P, g.spend, g.qty)
        index_100 == FMul(P, FDiv(P, avg_unit_price, base_price), Hundred)
    IN  [period                  |-> IsoDate(g.period),
         avg_unit_price          |-> avg_unit_price,
         index_100               |-> index_100,
         inflation_pct_from_base |->
             FSub(P, FDiv(P, avg_unit_price, base_price), One),
         n                       |-> g.n]

\* ProductPoint with the index on a base of 1 instead of 100
ProductPoint_ratio(g, base_price, P) ==
    LET avg_unit_price == FDiv(P, g.spend, g.qty)
        index_100 == FDiv(P, avg_unit_price, base_price)
    IN  [period                  |-> IsoDate(g.period),
         avg_unit_price          |-> avg_unit_price,
         index_100               |-> index_100,
         inflation_pct_from_base |-> FSub(P, index_100, Hundred),
         n                       |-> g.n]

\* one row of agg as a point: avg_unit_price, index_100 and
\* inflation_pct_from_base of the period
ProductPoint(g, base_price, P) ==
    LET avg_unit_price == FDiv(P, g.spend, g.qty)
        index_100 == FMul(P, FDiv(P, avg_unit_price, base_price), Hundred)
    IN  [period                  |-> IsoDate(g.period),
         avg_unit_price          |-> avg_unit_price,
         index_100               |-> index_100,
         inflation_pct_from_base |-> FSub(P, index_100, Hundred),
         n                       |-> g.n]

\* ProductKpi measuring the change from the first point instead of the
\* point before the last
ProductKpi_vs_base(product_id, points, P) ==
    LET last == points[Len(points)]
        prev == points[1]
        mom_pct ==
            IF Len(points) >= 2 /\ RPos(prev.avg_unit_price)
            THEN Some(FMul(P,
                    FSub(P, FDiv(P, last.avg_unit_price,
                                 prev.avg_unit_price), One),
                    Hundred))
            ELSE None
    IN  [product_id                |-> product_id,
         base_period               |-> points[1].period,
         base_price                |-> points[1].avg_unit_price,
         last_period               |-> last.period,
         last_avg_unit_price       |-> last.avg_unit_price,
         last_index_100            |-> last.index_100,
         change_vs_prev_period_pct |-> mom_pct,
         last_n                    |-> last.n]

\* the kpi of product_inflation_index over the (non-empty) rows of agg
ProductKpi(product_id, points, P) ==
    LET last == points[Len(points)]
        prev == points[Len(points) - 1]
        mom_pct ==
            IF Len(points) >= 2 /\ RPos(prev.avg_unit_price)
            THEN Some(FMul(P,
                    FSub(P, FDiv(P, last.avg_unit_price,
                                 prev.avg_unit_price), One),
                    Hundred))
            ELSE None
    IN  [product_id                |-> product_id,
         base_period               |-> points[1].period,
         base_price                |-> points[1].avg_unit_price,
         last_period               |-> last.period,
         last_avg_unit_price       |-> last.avg_unit_price,
         last_index_100            |-> last.index_100,
         change_vs_prev_period_pct |-> mom_pct,
         last_n                    |-> last.n]

product_inflation_index(store, a, P) ==
    LET OnPoints(points) ==
            Return(points, Some(ProductKpi(Val(a.product_id), points, P)))
        OnBase(agg, base_price) ==
            IF ~RPos(base_price) THEN Return(<< >>, None)
            ELSE OnPoints(SeqMap(LAMBDA g : ProductPoint(g, base_price, P),
                                 agg))
        OnAgg(agg) ==
            IF Len(agg) = 0 THEN Return(<< >>, None)
            ELSE OnBase(agg, FDiv(P, agg[1].spend, agg[1].qty))
        OnFrame(df) ==
            IF Len(df) = 0 THEN Return(<< >>, None)
            ELSE OnAgg(ProductAgg(df, P))
        OnFetch(prep) ==
            IF IsNone(prep) THEN Raise("ValueError", 1)
            ELSE OnFrame(SelectSeq(Val(prep),
                            LAMBDA r : r.product_id = Val(a.product_id)))
    IN  IF ~_ensure_group_by(a.group_by) THEN Raise("ValueError", 0)
        ELSE IF ~_ensure_price_mode(a.price_mode) THEN Raise("ValueError", 0)
        ELSE IF ~_ensure_promo_mode(a.promo_mode) THEN Raise("ValueError", 0)
        ELSE OnFetch(_prepare_df_for_index(store,
                        [a EXCEPT !.store_id = None, !.product_ids = None,
                                  !.category_id = None], P))

----------------------------------------------------------------------------
(* _laspeyres_index and the three indices built on it                       *)

\* BaseAgg taking the unit price of the first base row of a product as its
\* base price
BaseAgg_first_price(df, base_p, P) ==
    LET base_slice == SelectSeq(df, LAMBDA r : r.period = base_p)
        agg == SeqMap(LAMBDA k :
                 LET g == SelectSeq(base_slice, LAMBDA r : r.product_id = k)
                 IN  [product_id |-> k,
                      first      |-> g[1].unit_price_used,
                      base_qty   |-> ColSum(P, g, LAMBDA r : r.quantity),
                      base_spend |-> ColSum(P, g, LAMBDA r : r.spend)],
                 Keys(base_slice, LAMBDA r : r.product_id))
        pos == SelectSeq(agg, LAMBDA g : RPos(g.base_qty) /\ RPos(g.base_spend))
    IN  SeqMap(LAMBDA g :
                 [product_id  |-> g.product_id,
                  base_price  |-> g.first,
                  base_weight |-> g.base_spend],
               pos)

\* BaseAgg weighting the products by base quantity instead of base spend
BaseAgg_qty_weight(df, base_p, P) ==
    LET base_slice == SelectSeq(df, LAMBDA r : r.period = base_p)
        agg == SeqMap(LAMBDA k :
                 LET g == SelectSeq(base_slice, LAMBDA r : r.product_id = k)
                 IN  [product_id |-> k,
                      base_qty   |-> ColSum(P, g, LAMBDA r : r.quantity),
                      base_spend |-> ColSum(P, g, LAMBDA r : r.spend)],
                 Keys(base_slice, LAMBDA r : r.product_id))
        pos == SelectSeq(agg, LAMBDA g : RPos(g.base_qty) /\ RPos(g.base_spend))
    IN  SeqMap(LAMBDA g :
                 [product_id  |-> g.product_id,
                  base_price  |-> FDiv(P, g.base_spend, g.base_qty),
                  base_weight |-> g.base_qty],
               pos)

\* base_agg: per product of the base period (product ids ascending) the
\* base price and base weight; products without positive quantity and
\* spend are left out
BaseAgg(df, base_p, P) ==
    LET base_slice == SelectSeq(df, LAMBDA r : r.period = base_p)
        agg == SeqMap(LAMBDA k :
                 LET g == SelectSeq(base_slice, LAMBDA r : r.product_id = k)
                 IN  [product_id |-> k,
                      base_qty   |-> ColSum(P, g, LAMBDA r : r.quantity),
                      base_spend |-> ColSum(P, g, LAMBDA r : r.spend)],
                 Keys(base_slice, LAMBDA r : r.product_id))
        pos == SelectSeq(agg, LAMBDA g : RPos(g.base_qty) /\ RPos(g.base_spend))
    IN  SeqMap(LAMBDA g :
                 [product_id  |-> g.product_id,
                  base_price  |-> FDiv(P, g.base_spend, g.base_qty),
                  base_weight |-> g.base_spend],
               pos)

\* the rows of one period (or of the whole frame) aggregated per product,
\* product ids ascending, with price = spend / qty
PriceAgg(df, P) ==
    LET agg == SeqMap(LAMBDA k :
                 LET g == SelectSeq(df, LAMBDA r : r.product_id = k)
                 IN  [product_id |-> k,
                      qty        |-> ColSum(P, g, LAMBDA r : r.quantity),
                      spend      |-> ColSum(P, g, LAMBDA r : r.spend)],
                 Keys(df, LAMBDA r : r.product_id))
        pos == SelectSeq(agg, LAMBDA g : RPos(g.qty) /\ RPos(g.spend))
    IN  SeqMap(LAMBDA g :
                 [product_id |-> g.product_id,
                  qty        |-> g.qty,
                  spend      |-> g.spend,
                  price      |-> FDiv(P, g.spend, g.qty)],
               pos)

\* inner join of per-product prices with base_agg on product_id, rows with
\* a non-positive price or base price removed, ratio added
Merged(prices, base_agg, P) ==
    LET base(k) == CHOOSE b \in Range(base_agg) : b.product_id = k
        hit == SelectSeq(prices, LAMBDA g :
                 /\ \E b \in Range(base_agg) : b.product_id = g.product_id
                 /\ RPos(base(g.product_id).base_price)
                 /\ RPos(g.price))
    IN  SeqMap(LAMBDA g :
                 [product_id  |-> g.product_id,
                  price       |-> g.price,
                  base_price  |-> base(g.product_id).base_price,
                  base_weight |-> base(g.product_id).base_weight,
                  ratio       |-> FDiv(P, g.price,
                                       base(g.product_id).base_price)],
               hit)

EmptyIndexKpi(base_period) ==
    [base_period             |-> base_period,
     last_period             |-> None,
     periods                 |-> 0,
     items_in_base           |-> 0,
     items_total_base_weight |-> Zero,
     coverage_last           |-> Zero,
     index_last              |-> None,
     inflation_total         |-> None]

\* IndexPoint giving a period without a matched product a point of index 0
IndexPoint_zero(df, base_agg, total_base_weight, t, P) ==
    LET OnMerged(m) ==
            IF Len(m) = 0
            THEN Some([period |-> IsoDate(t), index |-> Zero,
                       coverage |-> Zero, items |-> 0])
            ELSE LET sum_w_ratio == GroupSum(P, SeqMap(LAMBDA g :
                                       FMul(P, g.base_weight, g.ratio), m))
                     OnSum(sum_w) ==
                         Some([period   |-> IsoDate(t),
                               index    |-> FDiv(P,
                                   FMul(P, Hundred, sum_w_ratio), sum_w),
                               coverage |-> FDiv(P, sum_w, total_base_weight),
                               items    |-> Cardinality({m[i].product_id :
                                                          i \in 1..Len(m)})])
                 IN  OnSum(GroupSum(P, SeqMap(LAMBDA g : g.base_weight,
                                                m)))
    IN  OnMerged(Merged(PriceAgg(SelectSeq(df, LAMBDA r : r.period = t), P),
                        base_agg, P))

\* IndexPoint dividing the weighted ratios, instead of the matched weight,
\* by the total base weight
IndexPoint_ratio_coverage(df, base_agg, total_base_weight, t, P) ==
    LET OnMerged(m) ==
            IF Len(m) = 0 THEN None
            ELSE LET sum_w_ratio == GroupSum(P, SeqMap(LAMBDA g :
                                       FMul(P, g.base_weight, g.ratio), m))
                     OnSum(sum_w) ==
                         Some([period   |-> IsoDate(t),
                               index    |-> FDiv(P,
                                   FMul(P, Hundred, sum_w_ratio), sum_w),
                               coverage |-> FDiv(P, sum_w_ratio,
                                                 total_base_weight),
                               items    |-> Cardinality({m[i].product_id :
                                                          i \in 1..Len(m)})])
                 IN  OnSum(GroupSum(P, SeqMap(LAMBDA g : g.base_weight,
                                                m)))
    IN  OnMerged(Merged(PriceAgg(SelectSeq(df, LAMBDA r : r.period = t), P),
                        base_agg, P))

\* one point of the index for period t, or None when no product matches
IndexPoint(df, base_agg, total_base_weight, t, P) ==
    LET OnMerged(m) ==
            IF Len(m) = 0 THEN None
            ELSE LET sum_w_ratio == GroupSum(P, SeqMap(LAMBDA g :
                                       FMul(P, g.base_weight, g.ratio), m))
                     OnSum(sum_w) ==
                         Some([period   |-> IsoDate(t),
                               index    |-> FDiv(P,
                                   FMul(P, Hundred, sum_w_ratio), sum_w),
                               coverage |-> FDiv(P, sum_w, total_base_weight),
                               items    |-> Cardinality({m[i].product_id :
                                                          i \in 1..Len(m)})])
                 IN  OnSum(GroupSum(P, SeqMap(LAMBDA g : g.base_weight,
                                                m)))
    IN  OnMerged(Merged(PriceAgg(SelectSeq(df, LAMBDA r : r.period = t), P),
                        base_agg, P))

\* IndexKpi reading the last period, index and coverage off the first point
IndexKpi_first(base_p, base_agg, total_base_weight, points, P) ==
    LET last == points[1]
    IN  [base_period             |-> Some(IsoDate(base_p)),
         last_period             |-> Some(last.period),
         periods                 |-> Len(points),
         items_in_base           |-> Len(base_agg),
         items_total_base_weight |-> total_base_weight,
         coverage_last           |-> last.coverage,
         index_last              |-> Some(last.index),
         inflation_total         |-> Some(FSub(P, last.index, Hundred))]

\* IndexKpi with inflation_total as a fraction of the base, not in points
IndexKpi_fraction(base_p, base_agg, total_base_weight, points, P) ==
    LET last == points[Len(points)]
    IN  [base_period             |-> Some(IsoDate(base_p)),
         last_period             |-> Some(last.period),
         periods                 |-> Len(points),
         items_in_base           |-> Len(base_agg),
         items_total_base_weight |-> total_base_weight,
         coverage_last           |-> last.coverage,
         index_last              |-> Some(last.index),
         inflation_total         |-> Some(FSub(P, FDiv(P, last.index, Hundred),
                                               One))]

\* the kpi of _laspeyres_index over the (non-empty) points
IndexKpi(base_p, base_agg, total_base_weight, points, P) ==
    LET last == points[Len(points)]
    IN  [base_period             |-> Some(IsoDate(base_p)),
         last_period             |-> Some(last.period),
         periods                 |-> Len(points),
         items_in_base           |-> Len(base_agg),
         items_total_base_weight |-> total_base_weight,
         coverage_last           |-> last.coverage,
         index_last              |-> Some(last.index),
         inflation_total         |-> Some(FSub(P, last.index, Hundred))]

_laspeyres_index(df, base_period, P) ==
    LET OnPoints(base_p, base_agg, total_base_weight, points) ==
            IF Len(points) = 0 THEN Raise("IndexError", 1)
            ELSE Return(points,
                        Some(IndexKpi(base_p, base_agg, total_base_weight,
                                      points, P)))
        OnAll(base_p, base_agg, total_base_weight, all) ==
            OnPoints(base_p, base_agg, total_base_weight,
                     SeqMap(LAMBDA o : Val(o),
                            SelectSeq(all, LAMBDA o : ~IsNone(o))))
        OnWeight(base_p, base_agg, total_base_weight) ==
            OnAll(base_p, base_agg, total_base_weight,
                  SeqMap(LAMBDA t :
                      IndexPoint(df, base_agg, total_base_weight, t, P),
                      Keys(df, LAMBDA r : r.period)))
        OnBaseAgg(base_p, base_agg) ==
            IF Len(base_agg) = 0
            THEN Return(<< >>, Some(EmptyIndexKpi(Some(IsoDate(base_p)))))
            ELSE OnWeight(base_p, base_agg,
                     FSum(P, SeqMap(LAMBDA b : b.base_weight, base_agg)))
        OnBase(base_p) == OnBaseAgg(base_p, BaseAgg(df, base_p, P))
    IN  IF Len(df) = 0 THEN Return(<< >>, Some(EmptyIndexKpi(None)))
        ELSE OnBase(IF ~IsNone(base_period) THEN Val(base_period)
                    ELSE SetMin({df[i].period : i \in 1..Len(df)}))

\* the common body of basket_, category_ and store_inflation_index
IndexCall(store, a, P) ==
    IF ~_ensure_group_by(a.group_by) THEN Raise("ValueError", 0)
    ELSE IF ~_ensure_price_mode(a.price_mode) THEN Raise("ValueError", 0)
    ELSE IF ~_ensure_promo_mode(a.promo_mode) THEN Raise("ValueError", 0)
    ELSE LET OnFetch(prep) ==
                 IF IsNone(prep) THEN Raise("ValueError", 1)
                 ELSE _laspeyres_index(Val(prep), None, P)
         IN  OnFetch(_prepare_df_for_index(store, a, P))

basket_inflation_index(store, a, P) ==
    IndexCall(store, [a EXCEPT !.store_id = None, !.product_id = None,
                               !.category_id = None], P)

category_inflation_index(store, a, P) ==
    IndexCall(store, [a EXCEPT !.store_id = None, !.product_id = None,
                               !.product_ids = None], P)

store_inflation_index(store, a, P) ==
    IndexCall(store, [a EXCEPT !.product_id = None, !.category_id = None], P)

----------------------------------------------------------------------------
(* product_store_price_stats and inflation_contributions                    *)

\* head keeping the last n rows instead of the first
head_last(s, n) ==
    SubSeq(s, IF n < Len(s) THEN Len(s) - n + 1 ELSE 1, Len(s))

\* DataFrame.head(n)
head(s, n) == SubSeq(s, 1, IF n < Len(s) THEN n ELSE Len(s))

Max(a, b) == IF a >= b THEN a ELSE b

RMin(S) == CHOOSE x \in S : \A y \in S : RLe(x, y)

RMax(S) == CHOOSE x \in S : \A y \in S : RLe(y, x)

SetMax(S) == CHOOSE x \in S : \A y \in S : x >= y

\* StoreAgg dividing the spend of a store by the number of its purchases
StoreAgg_per_purchase(df, P) ==
    LET agg == SeqMap(LAMBDA k :
                 LET g == SelectSeq(df, LAMBDA r : r.store_id = k)
                 IN  [store_id  |-> k,
                      store     |-> g[1].store,
                      qty       |-> <<Len(g), 1>>,
                      spend     |-> ColSum(P, g, LAMBDA r : r.spend),
                      purchases |-> Len(g),
                      min_price |-> RMin({g[i].unit_price_used :
                                             i \in 1..Len(g)}),
                      max_price |-> RMax({g[i].unit_price_used :
                                             i \in 1..Len(g)}),
                      last_date |-> SetMax({g[i].purchase_date :
                                               i \in 1..Len(g)})],
                 Keys(df, LAMBDA r : r.store_id))
    IN  SelectSeq(agg, LAMBDA g : RPos(g.qty) /\ RPos(g.spend))

\* the per-store aggregate of product_store_price_stats, store ids
\* ascending, stores without positive quantity and spend removed
StoreAgg(df, P) ==
    LET agg == SeqMap(LAMBDA k :
                 LET g == SelectSeq(df, LAMBDA r : r.store_id = k)
                 IN  [store_id  |-> k,
                      store     |-> g[1].store,
                      qty       |-> ColSum(P, g, LAMBDA r : r.quantity),
                      spend     |-> ColSum(P, g, LAMBDA r : r.spend),
                      purchases |-> Len(g),
                      min_price |-> RMin({g[i].unit_price_used :
                                             i \in 1..Len(g)}),
                      max_price |-> RMax({g[i].unit_price_used :
                                             i \in 1..Len(g)}),
                      last_date |-> SetMax({g[i].purchase_date :
                                               i \in 1..Len(g)})],
                 Keys(df, LAMBDA r : r.store_id))
    IN  SelectSeq(agg, LAMBDA g : RPos(g.qty) /\ RPos(g.spend))

product_store_price_stats(store, a, P) ==
    LET avg(g) == FDiv(P, g.spend, g.qty)
        OnSorted(g) ==
            Return(
                SeqMap(LAMBDA r :
                    [store_id       |-> r.store_id,
                     store          |-> r.store,
                     avg_unit_price |-> avg(r),
                     min_unit_price |-> r.min_price,
                     max_unit_price |-> r.max_price,
                     qty            |-> r.qty,
                     purchases      |-> r.purchases,
                     last_date      |-> IsoDate(r.last_date)],
                    g),
                Some([product_id          |-> Val(a.product_id),
                      stores              |-> Len(g),
                      best_store_id       |->
                          IF Len(g) > 0 THEN Some(g[1].store_id) ELSE None,
                      best_avg_unit_price |->
                          IF Len(g) > 0 THEN Some(avg(g[1])) ELSE None]))
        OnFetch(prep) ==
            IF IsNone(prep) THEN Raise("ValueError", 1)
            ELSE IF Len(Val(prep)) = 0
            THEN Return(<< >>, Some([product_id |-> Val(a.product_id),
                                     stores     |-> 0]))
            ELSE OnSorted(SortValues(StoreAgg(Val(prep), P),
                                     LAMBDA x, y : RLt(avg(x), avg(y))))
    IN  IF ~_ensure_price_mode(a.price_mode) THEN Raise("ValueError", 0)
        ELSE IF ~_ensure_promo_mode(a.promo_mode) THEN Raise("ValueError", 0)
        ELSE OnFetch(_prepare_df_for_index(store,
                        [a EXCEPT !.store_id = None, !.product_ids = None,
                                  !.category_id = None, !.group_by = "day"],
                        P))

\* ContribRows taking share_w * ratio * 100, the index points themselves,
\* for the contribution
ContribRows_index_points(m, sum_w, P) ==
    SeqMap(LAMBDA g :
        LET share_w == FDiv(P, g.base_weight, sum_w)
        IN  [product_id   |-> g.product_id,
             product      |-> ProductName(g.product_id),
             ratio        |-> g.ratio,
             share_w      |-> share_w,
             contribution |-> FMul(P, FMul(P, share_w, g.ratio), Hundred)],
        m)

\* ContribRows taking the share of the weighted ratio instead of the weight
ContribRows_ratio_share(m, sum_w, P) ==
    SeqMap(LAMBDA g :
        LET share_w == FDiv(P, FMul(P, g.base_weight, g.ratio), sum_w)
        IN  [product_id   |-> g.product_id,
             product      |-> ProductName(g.product_id),
             ratio        |-> g.ratio,
             share_w      |-> share_w,
             contribution |-> FMul(P, FMul(P, share_w,
                                           FSub(P, g.ratio, One)), Hundred)],
        m)

\* merged of inflation_contributions: the matched products (ids ascending)
\* with ratio, share_w and contribution; sum_w is the covered weight
ContribRows(m, sum_w, P) ==
    SeqMap(LAMBDA g :
        LET share_w == FDiv(P, g.base_weight, sum_w)
        IN  [product_id   |-> g.product_id,
             product      |-> ProductName(g.product_id),
             ratio        |-> g.ratio,
             share_w      |-> share_w,
             contribution |-> FMul(P, FMul(P, share_w,
                                           FSub(P, g.ratio, One)), Hundred)],
        m)

\* CategoryOf putting the products without a category into category 1
CategoryOf_first(k) ==
    IF IsNone(ProductCategory(k))
    THEN [category_id |-> 1, category |-> CategoryName(1)]
    ELSE [category_id |-> Val(ProductCategory(k)),
          category    |-> CategoryName(Val(ProductCategory(k)))]

\* the category a product of the frame is mapped to: (-1, 'UNKNOWN') when
\* the product has no category
CategoryOf(k) ==
    IF IsNone(ProductCategory(k))
    THEN [category_id |-> -1, category |-> "UNKNOWN"]
    ELSE [category_id |-> Val(ProductCategory(k)),
          category    |-> CategoryName(Val(ProductCategory(k)))]

\* cat of inflation_contributions: the rows summed per category
ContribByCategory(rows, P) ==
    SeqMap(LAMBDA c :
        LET g == SelectSeq(rows, LAMBDA r :
                   CategoryOf(r.product_id).category_id = c)
        IN  [category_id  |-> c,
             category     |-> CategoryOf(g[1].product_id).category,
             contribution |-> ColSum(P, g, LAMBDA r : r.contribution),
             share_w      |-> ColSum(P, g, LAMBDA r : r.share_w),
             items        |-> Cardinality({g[i].product_id :
                                             i \in 1..Len(g)})],
        Keys(rows, LAMBDA r : CategoryOf(r.product_id).category_id))

inflation_contributions(store, a, P) ==
    LET desc(x, y) == RLt(y.contribution, x.contribution)
        kpi(by, base_p, target_p, sum_w) ==
            Some([by             |-> by,
                  base_period    |-> Some(IsoDate(base_p)),
                  target_period  |-> Some(IsoDate(target_p)),
                  covered_weight |-> sum_w])
        OnRows(base_p, target_p, sum_w, rows) ==
            IF a.by = "product"
            THEN Return(
                   SeqMap(LAMBDA r :
                       [product_id   |-> r.product_id,
                        product      |-> r.product,
                        ratio        |-> r.ratio,
                        contribution |-> r.contribution,
                        share_w      |-> r.share_w],
                       head(SortValues(rows, desc), Max(1, a.top))),
                   kpi("product", base_p, target_p, sum_w))
            ELSE Return(head(SortValues(ContribByCategory(rows, P), desc),
                             Max(1, a.top)),
                        kpi("category", base_p, target_p, sum_w))
        OnSum(base_p, target_p, m, sum_w) ==
            OnRows(base_p, target_p, sum_w, ContribRows(m, sum_w, P))
        OnMerged(base_p, target_p, base_agg, m) ==
            IF Len(base_agg) = 0 \/ Len(m) = 0
            THEN Return(<< >>,
                        Some([by            |-> a.by,
                              base_period   |-> Some(IsoDate(base_p)),
                              target_period |-> Some(IsoDate(target_p))]))
            ELSE OnSum(base_p, target_p, m,
                       FSum(P, SeqMap(LAMBDA g : g.base_weight, m)))
        OnBaseAgg(df, base_p, target_p, base_agg) ==
            OnMerged(base_p, target_p, base_agg,
                     Merged(PriceAgg(SelectSeq(df,
                                LAMBDA r : r.period = target_p), P),
                            base_agg, P))
        OnFrame(df, base_p, target_p) ==
            OnBaseAgg(df, base_p, target_p, BaseAgg(df, base_p, P))
        OnFetch(prep) ==
            IF IsNone(prep) THEN Raise("ValueError", 1)
            ELSE IF Len(Val(prep)) = 0
            THEN Return(<< >>, Some([by            |-> a.by,
                                     base_period   |-> None,
                                     target_period |-> None]))
            ELSE OnFrame(Val(prep),
                     SetMin({Val(prep)[i].period : i \in 1..Len(Val(prep))}),
                     SetMax({Val(prep)[i].period : i \in 1..Len(Val(prep))}))
    IN  IF ~_ensure_group_by(a.group_by) THEN Raise("ValueError", 0)
        ELSE IF ~_ensure_price_mode(a.price_mode) THEN Raise("ValueError", 0)
        ELSE IF ~_ensure_promo_mode(a.promo_mode) THEN Raise("ValueError", 0)
        ELSE OnFetch(_prepare_df_for_index(store,
                        [a EXCEPT !.product_id = None], P))

----------------------------------------------------------------------------
(* create_purchase (app/service/purchases.py)                               *)

\* the id the table gives the next row
NextId(store) ==
    IF Len(store) = 0 THEN 1
    ELSE SetMax({store[i].id : i \in 1..Len(store)}) + 1

\* create_purchase: None when it raises ValueError, else the stored row
create_purchase(store, c) ==
    LET is_promo == c.is_promo \/ ~IsNone(c.promo_type)
                              \/ ~IsNone(c.regular_unit_price)
        purchase_date == validate_date_not_in_future(c.purchase_date)
    IN  IF ~validate_positive_value(c.quantity) THEN None
        ELSE IF ~validate_positive_value(c.price) THEN None
        ELSE IF ~IsNone(c.regular_unit_price)
                /\ ~validate_positive_value(Val(c.regular_unit_price))
        THEN None
        ELSE IF IsNone(purchase_date) THEN None
        ELSE Some([id                 |-> NextId(store),
                   purchase_date      |-> Val(purchase_date),
                   product_id         |-> c.product_id,
                   store_id           |-> c.store_id,
                   quantity           |-> c.quantity,
                   total_price        |-> c.price,
                   is_promo           |-> is_promo,
                   promo_type         |-> IF is_promo THEN c.promo_type
                                          ELSE None,
                   regular_unit_price |-> IF is_promo THEN c.regular_unit_price
                                          ELSE None])

----------------------------------------------------------------------------
(* update_purchase and get_purchase_by_id (app/service/purchases.py)        *)

\* CRUDBase.update sets a field only when the value given is not None
SetField(old, new) == IF IsNone(new) THEN old ELSE Val(new)

\* update_purchase that leaves the promo fields as they are when is_promo
\* is set to False
UpdatedRow_keeping(p, u) ==
    LET OnRegular(q) ==
            IF IsNone(u.regular_unit_price) THEN q
            ELSE [q EXCEPT !.regular_unit_price = u.regular_unit_price,
                           !.is_promo = TRUE]
        OnPromoType(q) ==
            OnRegular(IF IsNone(u.promo_type) THEN q
                      ELSE [q EXCEPT !.promo_type = u.promo_type,
                                     !.is_promo = TRUE])
        OnIsPromo(q) ==
            OnPromoType(IF IsNone(u.is_promo) THEN q
                        ELSE [q EXCEPT !.is_promo = Val(u.is_promo)])
    IN  OnIsPromo([p EXCEPT
                     !.store_id      = SetField(@, u.store_id),
                     !.product_id    = SetField(@, u.product_id),
                     !.total_price   = SetField(@, u.total_price),
                     !.quantity      = SetField(@, u.quantity),
                     !.purchase_date = SetField(@, u.purchase_date)])

\* update_purchase whose regular_unit_price does not switch is_promo on
UpdatedRow_regular_only(p, u) ==
    LET OnRegular(q) ==
            IF IsNone(u.regular_unit_price) THEN q
            ELSE [q EXCEPT !.regular_unit_price = u.regular_unit_price]
        OnPromoType(q) ==
            OnRegular(IF IsNone(u.promo_type) THEN q
                      ELSE [q EXCEPT !.promo_type = u.promo_type,
                                     !.is_promo = TRUE])
        OnIsPromo(q) ==
            OnPromoType(IF IsNone(u.is_promo) THEN q
                        ELSE IF Val(u.is_promo)
                        THEN [q EXCEPT !.is_promo = TRUE]
                        ELSE [q EXCEPT !.is_promo = FALSE,
                                       !.promo_type = None,
                                       !.regular_unit_price = None])
    IN  OnIsPromo([p EXCEPT
                     !.store_id      = SetField(@, u.store_id),
                     !.product_id    = SetField(@, u.product_id),
                     !.total_price   = SetField(@, u.total_price),
                     !.quantity      = SetField(@, u.quantity),
                     !.purchase_date = SetField(@, u.purchase_date)])

\* update_purchase on the stored purchase p, the arguments validated: the
\* plain fields first, then is_promo, promo_type and regular_unit_price in
\* this order
UpdatedRow(p, u) ==
    LET OnRegular(q) ==
            IF IsNone(u.regular_unit_price) THEN q
            ELSE [q EXCEPT !.regular_unit_price = u.regular_unit_price,
                           !.is_promo = TRUE]
        OnPromoType(q) ==
            OnRegular(IF IsNone(u.promo_type) THEN q
                      ELSE [q EXCEPT !.promo_type = u.promo_type,
                                     !.is_promo = TRUE])
        OnIsPromo(q) ==
            OnPromoType(IF IsNone(u.is_promo) THEN q
                        ELSE IF Val(u.is_promo)
                        THEN [q EXCEPT !.is_promo = TRUE]
                        ELSE [q EXCEPT !.is_promo = FALSE,
                                       !.promo_type = None,
                                       !.regular_unit_price = None])
    IN  OnIsPromo([p EXCEPT
                     !.store_id      = SetField(@, u.store_id),
                     !.product_id    = SetField(@, u.product_id),
                     !.total_price   = SetField(@, u.total_price),
                     !.quantity      = SetField(@, u.quantity),
                     !.purchase_date = SetField(@, u.purchase_date)])

\* update_purchase: None when it raises ValueError (a value that does not
\* pass its validator, or no purchase of that id), else the table after
\* the commit
update_purchase(store, u) ==
    IF ~IsNone(u.total_price) /\ ~validate_positive_value(Val(u.total_price))
    THEN None
    ELSE IF ~IsNone(u.quantity) /\ ~validate_positive_value(Val(u.quantity))
    THEN None
    ELSE IF ~IsNone(u.purchase_date)
            /\ IsNone(validate_date_not_in_future(u.purchase_date))
    THEN None
    ELSE IF ~IsNone(u.regular_unit_price)
            /\ ~validate_positive_value(Val(u.regular_unit_price))
    THEN None
    ELSE IF \A i \in 1..Len(store) : store[i].id # u.purchase_id
    THEN None
    ELSE Some([i \in 1..Len(store) |->
                 IF store[i].id = u.purchase_id
                 THEN UpdatedRow(store[i], u) ELSE store[i]])

\* get_purchase_by_id: None when it raises ValueError, else the purchase
\* with its computed unit_price
get_purchase_by_id(store, purchase_id) ==
    IF \A i \in 1..Len(store) : store[i].id # purchase_id THEN None
    ELSE LET p == CHOOSE q \in Range(store) : q.id = purchase_id
         IN  Some([id          |-> p.id,
                   quantity    |-> p.quantity,
                   total_price |-> p.total_price,
                   unit_price  |-> unit_price(p)])

----------------------------------------------------------------------------
(* The state machine.  db is the purchase table in id order; result is the  *)
(* outcome of the call in progress: its name, its arguments and what it     *)
(* returned or raised.  The caller takes the outcome (Discard) before it    *)
(* makes the next call.                                                     *)

Outcome(fn, a, body) ==
    [fn      |-> fn,
     args    |-> a,
     raised  |-> body.raised,
     fetches |-> body.fetches,
     points  |-> body.points,
     kpi     |-> body.kpi]

NoResult == Outcome("", None, Raise("", 0))

Init ==
    /\ db = << >>
    /\ result = NoResult
    /\ catalog = Catalog0

Idle == result = NoResult

\* the caller is done with the outcome of its call
Discard ==
    /\ ~Idle
    /\ result' = NoResult
    /\ UNCHANGED <<db, catalog>>

\* the purchases are entered in the order of their dates
InDateOrder(store, c) ==
    \A i \in 1..Len(store) :
        store[i].purchase_date <= Val(validate_date_not_in_future(c.purchase_date))

\* create_purchase with arguments from C
CreatePurchase(C) ==
    \E c \in C :
        /\ Idle
        /\ Len(db) < MaxRows
        /\ UNCHANGED catalog
        /\ LET row == create_purchase(db, c)
           IN  IF IsNone(row)
               THEN /\ db' = db
                    /\ result' = Outcome("create_purchase", c,
                                         Raise("ValueError", 0))
               ELSE /\ InDateOrder(db, c)
                    /\ db' = Append(db, Val(row))
                    /\ result' = Outcome("create_purchase", c, Raise("", 0))

\* update_purchase with arguments from U
UpdatePurchase(U) ==
    \E u \in U :
        /\ Idle
        /\ UNCHANGED catalog
        /\ LET after == update_purchase(db, u)
           IN  IF IsNone(after)
               THEN /\ db' = db
                    /\ result' = Outcome("update_purchase", u,
                                         Raise("ValueError", 0))
               ELSE /\ db' = Val(after)
                    /\ result' = Outcome("update_purchase", u, Raise("", 0))

\* get_purchase_by_id with an id of Ids
GetPurchase(Ids) ==
    \E id \in Ids :
        /\ Idle
        /\ LET p == get_purchase_by_id(db, id)
           IN  result' = Outcome("get_purchase_by_id", [purchase_id |-> id],
                            IF IsNone(p) THEN Raise("ValueError", 0)
                            ELSE [Return(<<Val(p)>>, None)
                                    EXCEPT !.fetches = 0])
        /\ UNCHANGED <<db, catalog>>

\* the compute functions called with arguments from A, in arithmetic P
CallProductIndex(A, P) ==
    \E a \in A :
        /\ Idle
        /\ result' = Outcome("product_inflation_index", a,
                             product_inflation_index(db, a, P))
        /\ UNCHANGED <<db, catalog>>

CallBasketIndex(A, P) ==
    \E a \in A :
        /\ Idle
        /\ result' = Outcome("basket_inflation_index", a,
                             basket_inflation_index(db, a, P))
        /\ UNCHANGED <<db, catalog>>

CallCategoryIndex(A, P) ==
    \E a \in A :
        /\ Idle
        /\ result' = Outcome("category_inflation_index", a,
                             category_inflation_index(db, a, P))
        /\ UNCHANGED <<db, catalog>>

CallStoreIndex(A, P) ==
    \E a \in A :
        /\ Idle
        /\ result' = Outcome("store_inflation_index", a,
                             store_inflation_index(db, a, P))
        /\ UNCHANGED <<db, catalog>>

\* CallStoreStats taking the oldest purchase off the table as it reads it
CallStoreStats_consuming(A, P) ==
    \E a \in A :
        /\ Idle
        /\ result' = Outcome("product_store_price_stats", a,
                             product_store_price_stats(db, a, P))
        /\ db' = SubSeq(db, 2, Len(db))
        /\ UNCHANGED catalog

CallStoreStats(A, P) ==
    \E a \in A :
        /\ Idle
        /\ result' = Outcome("product_store_price_stats", a,
                             product_store_price_stats(db, a, P))
        /\ UNCHANGED <<db, catalog>>

CallContributions(A, P) ==
    \E a \in A :
        /\ Idle
        /\ result' = Outcome("inflation_contributions", a,
                             inflation_contributions(db, a, P))
        /\ UNCHANGED <<db, catalog>>

\* _laspeyres_index called on the prepared rows with a base period of the
\* caller's choice; the arguments of A pass the fetch
CallLaspeyres(A, P) ==
    \E a \in A :
        /\ Idle
        /\ result' = Outcome("_laspeyres_index", a,
                        _laspeyres_index(
                            Val(_prepare_df_for_index(db, a, P)),
                            a.base_period, P))
        /\ UNCHANGED <<db, catalog>>

\* _prepare_df_for_index called by a compute function that has validated
\* the literals: the outcome carries the prepared rows
CallPrepare(A, P) ==
    \E a \in A :
        /\ Idle
        /\ LET OnFetch(prep) ==
                   IF IsNone(prep) THEN Raise("ValueError", 1)
                   ELSE Return(Val(prep), None)
           IN  result' = Outcome("_prepare_df_for_index", a,
                                 OnFetch(_prepare_df_for_index(db, a, P)))
        /\ UNCHANGED <<db, catalog>>

\* _period_start for one purchase date of Dates and one literal of G: the
\* outcome carries the start of the period
CallPeriodStart(Dates, G) ==
    \E d \in Dates, g \in G :
        /\ Idle
        /\ result' = Outcome("_period_start",
                             [purchase_date |-> d, group_by |-> g],
                             Return(<<_period_start(d, g)>>, None))
        /\ UNCHANGED <<db, catalog>>

\* _apply_promo_filter called on a frame of F with a literal of M
CallPromoFilter(F, M) ==
    \E df \in F, m \in M :
        /\ Idle
        /\ result' = Outcome("_apply_promo_filter",
                             [df |-> df, promo_mode |-> m],
                             [Return(_apply_promo_filter(df, m), None)
                                EXCEPT !.fetches = 0])
        /\ UNCHANGED <<db, catalog>>

\* _compute_price_and_spend called on a frame of F with a literal of M
CallCompute(F, M, P) ==
    \E df \in F, m \in M :
        /\ Idle
        /\ result' = Outcome("_compute_price_and_spend",
                             [df |-> df, price_mode |-> m],
                             [Return(_compute_price_and_spend(df, m, P), None)
                                EXCEPT !.fetches = 0])
        /\ UNCHANGED <<db, catalog>>

----------------------------------------------------------------------------
(* The inputs of Spec: real arithmetic.                                     *)

D(m, d) == DaysFromCivil(2025, m, d)

Purchase(p, s, date, qty, price) ==
    [store_id |-> s, product_id |-> p, quantity |-> qty, price |-> price,
     purchase_date |-> Some(date), is_promo |-> FALSE, promo_type |-> None,
     regular_unit_price |-> None]

\* the purchases that can be entered: product 1 bought in January,
\* February and March, product 2 in January and in March (on promotion,
\* regular price 45.00), and a purchase dated after today
NewPurchases ==
    {Purchase(1, 1, D(1, 15), 2000, 10000),
     Purchase(2, 2, D(1, 20), 1000, 4000),
     Purchase(1, 2, D(2, 10), 2000, 12000),
     Purchase(1, 1, D(3, 5), 2000, 15000),
     [Purchase(2, 1, D(3, 12), 1000, 3000)
        EXCEPT !.promo_type = Some("discount"),
               !.regular_unit_price = Some(4500)],
     Purchase(1, 1, D(4, 1), 1000, 5000)}

BaseArgs ==
    [by |-> "product", top |-> 10, base_period |-> None,
     from_date |-> None, to_date |-> None,
     store_id |-> None, product_id |-> None, product_ids |-> None,
     category_id |-> None, group_by |-> "month", price_mode |-> "paid",
     promo_mode |-> "include"]

\* the literals and date ranges the calls are made with; "hour", "list" and
\* "all" are not literals of the engine, and the last range is inverted
ArgVariants ==
    {[BaseArgs EXCEPT !.group_by = g] :
        g \in {"day", "week", "month", "year", "hour"}}
    \cup {[BaseArgs EXCEPT !.price_mode = pm, !.promo_mode = pr] :
            pm \in {"paid", "regular"}, pr \in {"include", "exclude", "only"}}
    \cup {[BaseArgs EXCEPT !.price_mode = "list"],
          [BaseArgs EXCEPT !.promo_mode = "all"]}
    \cup {[BaseArgs EXCEPT !.from_date = f, !.to_date = t] :
            f \in {None, Some(D(2, 1))}, t \in {None, Some(D(2, 28))}}
    \cup {[BaseArgs EXCEPT !.from_date = Some(D(3, 1)),
                           !.to_date = Some(D(1, 31))]}

ProductArgs ==
    {[v EXCEPT !.product_id = Some(p)] : v \in ArgVariants, p \in Products}

BasketArgs ==
    {[v EXCEPT !.product_ids = ids] :
        v \in ArgVariants, ids \in {None, Some({}), Some({1}), Some({3})}}

CategoryArgs ==
    {[v EXCEPT !.category_id = Some(c)] : v \in ArgVariants, c \in {1, 2}}

StoreArgs ==
    {[v EXCEPT !.store_id = Some(st)] : v \in ArgVariants, st \in Stores}

\* product_store_price_stats takes no group_by
StatsArgs == {a \in ProductArgs : a.group_by = BaseArgs.group_by}

ContribArgs ==
    {[v EXCEPT !.by = by, !.top = top] :
        v \in ArgVariants, by \in {"product", "category"}, top \in {1, 10}}

\* a base period for every month of the purchases and one without any, by
\* month and by day
LaspeyresArgs ==
    {[BaseArgs EXCEPT !.base_period = b, !.group_by = g] :
        b \in {None, Some(D(1, 1)), Some(D(2, 1)), Some(D(3, 1)),
               Some(D(4, 1))},
        g \in {"month", "day"}}

Next ==
    \/ Discard
    \/ CreatePurchase(NewPurchases)
    \/ CallProductIndex(ProductArgs, 0)
    \/ CallBasketIndex(BasketArgs, 0)
    \/ CallCategoryIndex(CategoryArgs, 0)
    \/ CallStoreIndex(StoreArgs, 0)
    \/ CallStoreStats(StatsArgs, 0)
    \/ CallContributions(ContribArgs, 0)
    \/ CallLaspeyres(LaspeyresArgs, 0)

Spec == Init /\ [][Next]_vars

----------------------------------------------------------------------------
(* The inputs of SpecFP: every operation rounded to MantBits significant    *)
(* bits, as float arithmetic rounds to 53.  The amounts are chosen so that  *)
(* sums and quotients are not representable.                                *)

NewPurchasesFP ==
    {Purchase(1, 1, D(1, 15), 2000, 4800),
     Purchase(2, 2, D(1, 20), 1000, 3100),
     Purchase(3, 1, D(1, 25), 1000, 200),
     Purchase(1, 2, D(2, 10), 2000, 6000),
     Purchase(1, 1, D(3, 5), 3000, 10000),
     [Purchase(2, 1, D(3, 12), 1000, 2700)
        EXCEPT !.promo_type = Some("discount"),
               !.regular_unit_price = Some(3300)]}

NextFP ==
    \/ Discard
    \/ CreatePurchase(NewPurchasesFP)
    \/ CallProductIndex(ProductArgs, MantBits)
    \/ CallBasketIndex(BasketArgs, MantBits)
    \/ CallCategoryIndex(CategoryArgs, MantBits)
    \/ CallStoreIndex(StoreArgs, MantBits)
    \/ CallStoreStats(StatsArgs, MantBits)
    \/ CallContributions(ContribArgs, MantBits)
    \/ CallLaspeyres(LaspeyresArgs, MantBits)

SpecFP == Init /\ [][NextFP]_vars

----------------------------------------------------------------------------
(* The inputs of SpecRows: the normalizer and the contributions over        *)
(* purchases with and without promotion, with and without a category, and   *)
(* one whose paid unit price rounds to 0.00.                                *)

\* product 3 has no category; its January purchase is a clearance of 3
\* units for 0.01 (paid unit price 0.00, regular price 20.00)
NewPurchasesRows ==
    {Purchase(1, 1, D(1, 15), 2000, 10000),
     Purchase(2, 2, D(1, 20), 1000, 4000),
     [Purchase(3, 1, D(1, 25), 3000, 1)
        EXCEPT !.promo_type = Some("clearance"),
               !.regular_unit_price = Some(2000)],
     Purchase(1, 1, D(3, 5), 2000, 9000),
     [Purchase(2, 1, D(3, 12), 1000, 3000)
        EXCEPT !.promo_type = Some("discount"),
               !.regular_unit_price = Some(4500)],
     Purchase(3, 2, D(3, 20), 1000, 3000)}

\* the arguments a compute function passes on after validating them
PrepareArgs ==
    {a \in BasketArgs : /\ _ensure_group_by(a.group_by)
                        /\ _ensure_price_mode(a.price_mode)
                        /\ _ensure_promo_mode(a.promo_mode)}

NextRows ==
    \/ Discard
    \/ CreatePurchase(NewPurchasesRows)
    \/ CallPrepare(PrepareArgs, 0)
    \/ CallContributions(ContribArgs, 0)

SpecRows == Init /\ [][NextRows]_vars

----------------------------------------------------------------------------
(* The inputs of SpecFrames: _apply_promo_filter and                        *)
(* _compute_price_and_spend as functions of the frame, over frames whose    *)
(* cells are missing, text, non-positive or positive.                       *)

\* a row as Purchase.to_dict gives it, with the cells of the frames
FrameRow(id, quantity, price, regular) ==
    [id |-> id, purchase_date |-> D(1, 15), product_id |-> 1,
     product |-> ProductName(1), category |-> Some(CategoryName(1)),
     category_id |-> ProductCategory(1), store_id |-> 1,
     store |-> StoreName(1), quantity |-> quantity, unit_price |-> price,
     is_promo |-> ~IsNone(regular), regular_unit_price |-> regular]

\* the cells of the frames given to _compute_price_and_spend: missing,
\* text, zero, negative and positive
QuantityCells == {None, Text, Zero, <<-1, 1>>, <<2, 1>>}

PriceCells == {None, Text, Zero, <<5, 2>>}

RegularCells == {None, Some(Text), Some(Zero), Some(<<3, 1>>)}

\* frames of one and of two rows
PriceFrames ==
    {<<FrameRow(1, q, u, g)>> :
        q \in QuantityCells, u \in PriceCells, g \in RegularCells}
    \cup {<<FrameRow(1, q1, u1, g1), FrameRow(2, q2, u2, g2)>> :
            q1 \in {Text, <<2, 1>>}, u1 \in {None, <<5, 2>>},
            g1 \in {None, Some(<<3, 1>>)},
            q2 \in QuantityCells, u2 \in PriceCells, g2 \in RegularCells}

\* a row with the is_promo cell c, or without it when c is None
PromoRow(id, c) ==
    IF IsNone(c)
    THEN [id |-> id, purchase_date |-> D(1, 15), product_id |-> 1]
    ELSE [id |-> id, purchase_date |-> D(1, 15), product_id |-> 1,
          is_promo |-> Val(c)]

PromoCells == {None, Some(TRUE), Some(FALSE)}

\* frames of up to three rows, with and without the is_promo cell
PromoFrames ==
    {<< >>}
    \cup {<<PromoRow(1, a)>> : a \in PromoCells}
    \cup {<<PromoRow(1, a), PromoRow(2, b)>> : a, b \in PromoCells}
    \cup {<<PromoRow(1, a), PromoRow(2, b), PromoRow(3, c)>> :
            a, b, c \in PromoCells}

NextFrames ==
    \/ Discard
    \/ CallPromoFilter(PromoFrames, {"include", "exclude", "only"})
    \/ CallCompute(PriceFrames, {"paid", "regular"}, 0)

SpecFrames == Init /\ [][NextFrames]_vars

----------------------------------------------------------------------------
(* The inputs of SpecPeriods: _period_start over the days around the leap   *)
(* day of 2024 and around both ends of that year.                           *)

PeriodDates ==
    (DaysFromCivil(2023, 12, 20)..DaysFromCivil(2024, 3, 5))
    \cup (DaysFromCivil(2024, 12, 20)..DaysFromCivil(2025, 1, 12))

NextPeriods ==
    \/ Discard
    \/ CallPeriodStart(PeriodDates, {"day", "week", "month", "year"})

SpecPeriods == Init /\ [][NextPeriods]_vars

----------------------------------------------------------------------------
(* The inputs of SpecCat: inflation_contributions as a function of the      *)
(* purchase table, in rounded arithmetic, over tables in which all three    *)
(* products are bought in January and in March.                             *)

\* the purchases of CatStores in the order of their dates; the amounts are
\* chosen so that the contributions do not add up associatively
CatPurchases ==
    <<Purchase(1, 1, D(1, 15), 1000, 1300),
      Purchase(2, 2, D(1, 20), 1000, 2000),
      Purchase(3, 1, D(1, 25), 1000, 200),
      Purchase(1, 1, D(3, 5), 1000, 700),
      Purchase(2, 1, D(3, 12), 1000, 400),
      Purchase(3, 2, D(3, 20), 1000, 900)>>

\* the table after create_purchase of every purchase of cs
RECURSIVE StoreOf(_)
StoreOf(cs) ==
    IF Len(cs) = 0 THEN << >>
    ELSE Append(StoreOf(SubSeq(cs, 1, Len(cs) - 1)),
                Val(create_purchase(StoreOf(SubSeq(cs, 1, Len(cs) - 1)),
                                    cs[Len(cs)])))

\* the tables of all six purchases and of all but one of them
CatStores ==
    {StoreOf(CatPurchases)}
    \cup {StoreOf(SubSeq(CatPurchases, 1, i - 1)
                  \o SubSeq(CatPurchases, i + 1, Len(CatPurchases))) :
             i \in 1..Len(CatPurchases)}

InitCat ==
    /\ db \in CatStores
    /\ result = NoResult
    /\ catalog = Catalog0

NextCat ==
    \/ Discard
    \/ CallContributions(ContribArgs, MantBits)

SpecCat == InitCat /\ [][NextCat]_vars

----------------------------------------------------------------------------
(* The inputs of SpecCrud: create_purchase, update_purchase and             *)
(* get_purchase_by_id with values that pass and values that do not pass     *)
(* the validators.                                                          *)

\* 2 units for 0.25 (a unit price of 0.125, half a cent), a discounted
\* purchase with a regular price, 3 units for 1.00, and purchases with a
\* quantity or a price that is not positive
NewPurchasesCrud ==
    {Purchase(1, 1, D(1, 15), 2000, 25),
     [Purchase(2, 1, D(1, 20), 1000, 3000)
        EXCEPT !.promo_type = Some("discount"),
               !.regular_unit_price = Some(4500)],
     Purchase(1, 2, D(2, 10), 3000, 100),
     Purchase(1, 1, D(3, 5), 0, 1000),
     Purchase(1, 1, D(3, 5), -1000, 1000),
     Purchase(1, 1, D(3, 5), 1000, 0),
     Purchase(1, 1, D(3, 5), 1000, -500)}

NoUpdate ==
    [purchase_id |-> 1, store_id |-> None, product_id |-> None,
     total_price |-> None, quantity |-> None, purchase_date |-> None,
     is_promo |-> None, promo_type |-> None, regular_unit_price |-> None]

\* updates of purchase 1 and of a purchase that does not exist
Updates ==
    {[v EXCEPT !.purchase_id = id] :
        id \in {1, 7},
        v \in {[NoUpdate EXCEPT !.total_price = Some(35)],
               [NoUpdate EXCEPT !.total_price = Some(0)],
               [NoUpdate EXCEPT !.total_price = Some(-100)],
               [NoUpdate EXCEPT !.quantity = Some(0)],
               [NoUpdate EXCEPT !.purchase_date = Some(Today + 1)],
               [NoUpdate EXCEPT !.purchase_date = Some(Today)],
               [NoUpdate EXCEPT !.regular_unit_price = Some(0)],
               [NoUpdate EXCEPT !.regular_unit_price = Some(500)],
               [NoUpdate EXCEPT !.promo_type = Some("coupon")],
               [NoUpdate EXCEPT !.is_promo = Some(TRUE)],
               [NoUpdate EXCEPT !.is_promo = Some(FALSE)],
               [NoUpdate EXCEPT !.is_promo = Some(FALSE),
                                !.promo_type = Some("coupon")],
               [NoUpdate EXCEPT !.is_promo = Some(FALSE),
                                !.regular_unit_price = Some(500)]}}

NextCrud ==
    \/ Discard
    \/ CreatePurchase(NewPurchasesCrud)
    \/ UpdatePurchase(Updates)
    \/ GetPurchase({1, 2, 7})

SpecCrud == Init /\ [][NextCrud]_vars

----------------------------------------------------------------------------
(* AnalyticsWidget._contrib_with_fallback (app/gui/analytics.py).  While    *)
(* the call runs, result holds its frame: pc, the index idx of the next     *)
(* group_by in order, last_res, and the engine calls made so far.           *)

order == <<"year", "month", "week", "day">>

\* |v| < 1e-9 for the number v = n / d, d > 0: |n| * 10^9 < d
BelowThreshold(v) ==
    (IF v[1] < 0 THEN -v[1] ELSE v[1]) <= (v[2] - 1) \div 1000000000

\* _is_degenerate that looks at the periods only
_is_degenerate_periods_only(res) ==
    /\ ~IsNone(res.kpi)
    /\ ~IsNone(Val(res.kpi).base_period)
    /\ ~IsNone(Val(res.kpi).target_period)
    /\ Val(res.kpi).base_period = Val(res.kpi).target_period

\* _is_degenerate: base and target period present and equal, or no points,
\* or no contribution of 1e-9 or more in absolute value
_is_degenerate(res) ==
    \/ /\ ~IsNone(res.kpi)
       /\ ~IsNone(Val(res.kpi).base_period)
       /\ ~IsNone(Val(res.kpi).target_period)
       /\ Val(res.kpi).base_period = Val(res.kpi).target_period
    \/ Len(res.points) = 0
    \/ \A i \in 1..Len(res.points) :
          BelowThreshold(res.points[i].contribution)

\* order.index(group_by), 'month' for a group_by that is not in order
start_idx(group_by) ==
    IF \E i \in 1..Len(order) : order[i] = group_by
    THEN CHOOSE i \in 1..Len(order) : order[i] = group_by
    ELSE 2

\* the arguments of the engine call for group_by gb
EngineArgs(a, gb) ==
    [BaseArgs EXCEPT !.by = a.by, !.from_date = a.from_date,
                     !.to_date = a.to_date, !.group_by = gb,
                     !.price_mode = a.price_mode,
                     !.promo_mode = a.promo_mode, !.top = a.top]

\* the frame of a call: its locals before the loop
Frame(a) ==
    [fn |-> "_contrib_with_fallback", args |-> a, raised |-> "", fetches |-> 0,
     points |-> << >>, kpi |-> None,
     pc |-> "loop", idx |-> start_idx(a.group_by), calls |-> << >>,
     used |-> ""]

InLoop == result.fn = "_contrib_with_fallback" /\ result.pc = "loop"

\* the GUI calls _contrib_with_fallback with arguments from A
CallFallback(A) ==
    \E a \in A :
        /\ Idle
        /\ result' = Frame(a)
        /\ UNCHANGED <<db, catalog>>

\* one turn of the loop: the engine call for order[idx]; an exception of
\* the engine leaves the function, a result that is not degenerate is
\* returned with its group_by, a degenerate one becomes last_res
FallbackAttempt(P) ==
    /\ InLoop
    /\ result.idx <= Len(order)
    /\ LET gb == order[result.idx]
           OnRes(res) ==
               LET made == [result EXCEPT
                              !.calls = Append(@, [group_by |-> gb,
                                                   res |-> res]),
                              !.fetches = @ + res.fetches]
               IN  IF res.raised # ""
                   THEN [made EXCEPT !.pc = "raised",
                                     !.raised = res.raised]
                   ELSE IF ~_is_degenerate(res)
                   THEN [made EXCEPT !.pc = "returned",
                                     !.points = res.points,
                                     !.kpi = res.kpi,
                                     !.used = gb]
                   ELSE [made EXCEPT !.idx = @ + 1,
                                     !.points = res.points,
                                     !.kpi = res.kpi]
       IN  result' = OnRes(inflation_contributions(db,
                                EngineArgs(result.args, gb), P))
    /\ UNCHANGED <<db, catalog>>

\* the loop is over: return last_res, 'day'
FallbackExhausted ==
    /\ InLoop
    /\ result.idx > Len(order)
    /\ result' = [result EXCEPT !.pc = "returned", !.used = "day"]
    /\ UNCHANGED <<db, catalog>>

\* the GUI has plotted what the call returned, or reported its exception
FallbackDone ==
    /\ result.fn = "_contrib_with_fallback"
    /\ result.pc # "loop"
    /\ result' = NoResult
    /\ UNCHANGED <<db, catalog>>

\* one product bought at one price or at several, within a week, a month,
\* a year and across years
FallbackPurchases ==
    {<< >>,
     <<Purchase(1, 1, D(1, 15), 1000, 1000),
       Purchase(1, 1, D(2, 15), 1000, 1200)>>,
     <<Purchase(1, 1, D(1, 10), 1000, 1000),
       Purchase(1, 1, D(3, 5), 1000, 800),
       Purchase(1, 1, D(3, 6), 1000, 1200)>>,
     <<Purchase(1, 1, D(1, 10), 1000, 1000),
       Purchase(1, 1, D(3, 5), 1000, 1000)>>,
     <<Purchase(1, 1, D(3, 3), 1000, 1000),
       Purchase(1, 1, D(3, 5), 1000, 1200)>>,
     <<Purchase(1, 1, D(3, 5), 1000, 1000),
       Purchase(1, 1, D(3, 5), 1000, 1200)>>,
     <<Purchase(1, 1, DaysFromCivil(2024, 6, 1), 1000, 1000),
       Purchase(2, 1, DaysFromCivil(2024, 6, 1), 1000, 500),
       Purchase(1, 1, D(3, 5), 1000, 1200),
       Purchase(2, 1, D(3, 5), 1000, 500)>>}

\* what the form can pass: the group_by of the combo box, by product or
\* category, a date range or none, one the engine refuses
FallbackArgs ==
    {[BaseArgs EXCEPT !.group_by = g, !.by = by,
                      !.from_date = r[1], !.to_date = r[2]] :
        g \in {"year", "month", "week", "day"},
        by \in {"product", "category"},
        r \in {<<None, None>>, <<Some(D(1, 1)), Some(D(3, 5))>>,
               <<Some(D(3, 1)), Some(D(1, 31))>>}}

InitFallback ==
    /\ db \in {StoreOf(cs) : cs \in FallbackPurchases}
    /\ result = NoResult
    /\ catalog = Catalog0

NextFallback ==
    \/ CallFallback(FallbackArgs)
    \/ FallbackAttempt(MantBits)
    \/ FallbackExhausted
    \/ FallbackDone

\* FallbackAttempt can be taken, and then changes the frame
AttemptEnabled == InLoop /\ result.idx <= Len(order)

\* the loop runs in the caller's thread and the engine call is synchronous:
\* a turn that can be taken is taken.  The fairness of FallbackAttempt is
\* WF_vars(FallbackAttempt(MantBits)) written out with AttemptEnabled for
\* ENABLED <<FallbackAttempt(MantBits)>>_vars
SpecFallback ==
    /\ InitFallback
    /\ [][NextFallback]_vars
    /\ ([]<>~AttemptEnabled \/ []<><<FallbackAttempt(MantBits)>>_vars)
    /\ WF_vars(FallbackExhausted)

----------------------------------------------------------------------------
(* Safe deletes (app/service/safe_delete.py, delete_guards.py,              *)
(* crud_service.py).  A guard is TRUE when it passes and FALSE when it      *)
(* raises ObjectInUseError.                                                 *)

\* a guard that compares the store of the purchases with the product id
product_has_no_purchases_by_store(store, product_id) ==
    \A i \in 1..Len(store) : store[i].store_id # product_id

product_has_no_purchases(store, product_id) ==
    \A i \in 1..Len(store) : store[i].product_id # product_id

store_has_no_purchases(store, store_id) ==
    \A i \in 1..Len(store) : store[i].store_id # store_id

unit_has_no_products(cat, unit_id) ==
    \A p \in cat.products : p.unit_id # unit_id

category_has_no_products(cat, category_id) ==
    \A p \in cat.products : p.category_id # Some(category_id)

\* the ids of a table of the catalog
IdsOf(cat, table) ==
    IF table = "products" THEN {p.id : p \in cat.products} ELSE cat[table]

\* CRUDBase.delete of an object that exists
Deleted(cat, table, item_id) ==
    IF table = "products"
    THEN [cat EXCEPT !.products = {p \in @ : p.id # item_id}]
    ELSE [cat EXCEPT ![table] = @ \ {item_id}]

\* delete_item: the guards, then CRUDBase.delete (ValueError when there is
\* no object of this id); the catalog after the call and what was raised
delete_item(cat, table, item_id, guards_pass) ==
    IF ~guards_pass
    THEN [raised |-> "ObjectInUseError", catalog |-> cat]
    ELSE IF item_id \notin IdsOf(cat, table)
    THEN [raised |-> "ValueError", catalog |-> cat]
    ELSE [raised |-> "", catalog |-> Deleted(cat, table, item_id)]

delete_product(cat, store, product_id) ==
    delete_item(cat, "products", product_id,
                product_has_no_purchases(store, product_id))

delete_store(cat, store, store_id) ==
    delete_item(cat, "stores", store_id,
                store_has_no_purchases(store, store_id))

delete_unit(cat, store, unit_id) ==
    delete_item(cat, "units", unit_id, unit_has_no_products(cat, unit_id))

delete_category(cat, store, category_id) ==
    delete_item(cat, "categories", category_id,
                category_has_no_products(cat, category_id))

\* the outcome r of the delete function fn called with item_id
DeleteOutcome(fn, item_id, r) ==
    /\ result' = Outcome(fn, [item_id |-> item_id], Raise(r.raised, 0))
    /\ catalog' = r.catalog
    /\ UNCHANGED db

DeleteProduct(Ids) ==
    \E id \in Ids :
        Idle /\ DeleteOutcome("delete_product", id,
                              delete_product(catalog, db, id))

DeleteStore(Ids) ==
    \E id \in Ids :
        Idle /\ DeleteOutcome("delete_store", id,
                              delete_store(catalog, db, id))

DeleteUnit(Ids) ==
    \E id \in Ids :
        Idle /\ DeleteOutcome("delete_unit", id,
                              delete_unit(catalog, db, id))

DeleteCategory(Ids) ==
    \E id \in Ids :
        Idle /\ DeleteOutcome("delete_category", id,
                              delete_category(catalog, db, id))

\* purchases of one product in one store, of two products in one store and
\* of three products in two stores
DeletePurchases ==
    {<< >>,
     <<Purchase(1, 1, D(1, 15), 1000, 1000)>>,
     <<Purchase(1, 1, D(1, 15), 1000, 1000),
       Purchase(2, 1, D(1, 20), 1000, 1200)>>,
     <<Purchase(1, 1, D(1, 15), 1000, 1000),
       Purchase(2, 2, D(1, 20), 1000, 1200),
       Purchase(3, 1, D(2, 15), 1000, 1000)>>}

InitDelete ==
    /\ db \in {StoreOf(cs) : cs \in DeletePurchases}
    /\ result = NoResult
    /\ catalog = Catalog0

\* the deletes are called with the ids of the catalog and one that no
\* table has
NextDelete ==
    \/ Discard
    \/ DeleteProduct({1, 2, 3, 4})
    \/ DeleteStore({1, 2, 3, 4})
    \/ DeleteUnit({1, 2, 3, 4})
    \/ DeleteCategory({1, 2, 3, 4})

SpecDelete == InitDelete /\ [][NextDelete]_vars

----------------------------------------------------------------------------
(* The inputs of SpecPromo: purchases created and updated with and without  *)
(* promo fields, and the compute functions called with promo_mode           *)
(* 'exclude' in both price modes.                                           *)

NewPurchasesPromo ==
    {Purchase(1, 1, D(1, 15), 1000, 1000),
     [Purchase(1, 1, D(2, 10), 1000, 1200)
        EXCEPT !.promo_type = Some("discount"),
               !.regular_unit_price = Some(1500)],
     Purchase(1, 2, D(3, 5), 1000, 1300)}

UpdatesPromo ==
    {[v EXCEPT !.purchase_id = id] :
        id \in {1, 2},
        v \in {[NoUpdate EXCEPT !.is_promo = Some(FALSE)],
               [NoUpdate EXCEPT !.regular_unit_price = Some(2000)],
               [NoUpdate EXCEPT !.promo_type = Some("coupon")],
               [NoUpdate EXCEPT !.is_promo = Some(FALSE),
                                !.regular_unit_price = Some(2000)]}}

ExcludeArgs ==
    {[BaseArgs EXCEPT !.promo_mode = "exclude", !.price_mode = pm,
                      !.group_by = g] :
        pm \in {"paid", "regular"}, g \in {"month", "day"}}

NextPromo ==
    \/ Discard
    \/ CreatePurchase(NewPurchasesPromo)
    \/ UpdatePurchase(UpdatesPromo)
    \/ CallProductIndex({[a EXCEPT !.product_id = Some(1)] :
                            a \in ExcludeArgs}, MantBits)
    \/ CallBasketIndex(ExcludeArgs, MantBits)
    \/ CallCategoryIndex({[a EXCEPT !.category_id = Some(1)] :
                             a \in ExcludeArgs}, MantBits)
    \/ CallStoreIndex({[a EXCEPT !.store_id = Some(1)] :
                          a \in ExcludeArgs}, MantBits)
    \/ CallStoreStats({[a EXCEPT !.product_id = Some(1)] :
                          a \in ExcludeArgs}, MantBits)
    \/ CallContributions(ExcludeArgs, MantBits)

SpecPromo == Init /\ [][NextPromo]_vars

----------------------------------------------------------------------------
(* Properties.  They are stated over the purchase table (db) and the        *)
(* outcome of the call in progress (result).                                 *)

ComputeFns ==
    {"product_inflation_index", "basket_inflation_index",
     "category_inflation_index", "store_inflation_index",
     "inflation_contributions", "product_store_price_stats"}

IndexFns ==
    {"basket_inflation_index", "category_inflation_index",
     "store_inflation_index", "_laspeyres_index"}

\* the id filters fn has as parameters
Accepts(fn) ==
    CASE fn = "product_inflation_index" -> {"product_id"}
      [] fn = "product_store_price_stats" -> {"product_id"}
      [] fn = "basket_inflation_index" -> {"product_ids"}
      [] fn = "category_inflation_index" -> {"category_id"}
      [] fn = "store_inflation_index" -> {"store_id", "product_ids"}
      [] fn = "inflation_contributions"
            -> {"store_id", "product_ids", "category_id"}
      [] OTHER -> {"store_id", "product_id", "product_ids", "category_id"}

\* the arguments of a call restricted to the parameters fn has
Masked(fn, a) ==
    [a EXCEPT
        !.store_id    = IF "store_id" \in Accepts(fn) THEN @ ELSE None,
        !.product_id  = IF "product_id" \in Accepts(fn) THEN @ ELSE None,
        !.product_ids = IF "product_ids" \in Accepts(fn) THEN @ ELSE None,
        !.category_id = IF "category_id" \in Accepts(fn) THEN @ ELSE None,
        !.group_by    = IF fn = "product_store_price_stats" THEN "day" ELSE @]

\* the purchase lies in the date range and has the ids of the filter a; an
\* empty product_ids list filters nothing
InFilter(p, a) ==
    /\ IsNone(a.from_date) \/ Val(a.from_date) <= p.purchase_date
    /\ IsNone(a.to_date) \/ p.purchase_date <= Val(a.to_date)
    /\ IsNone(a.store_id) \/ p.store_id = Val(a.store_id)
    /\ IsNone(a.product_id) \/ p.product_id = Val(a.product_id)
    /\ IsNone(a.product_ids) \/ Val(a.product_ids) = {}
          \/ p.product_id \in Val(a.product_ids)
    /\ IsNone(a.category_id)
          \/ ProductCategory(p.product_id) = a.category_id

\* the filter of the call in progress matches no purchase
NoRowMatches ==
    \A i \in 1..Len(db) :
        ~InFilter(db[i], Masked(result.fn, result.args))

ValidLiterals(a) ==
    /\ a.group_by \in {"day", "week", "month", "year"}
    /\ a.price_mode \in {"paid", "regular"}
    /\ a.promo_mode \in {"include", "exclude", "only"}

\* the call in progress was made with literals of the engine
CalledValid ==
    /\ result.fn \in ComputeFns
    /\ ValidLiterals(Masked(result.fn, result.args))

DateRangeOrdered(a) ==
    IsNone(a.from_date) \/ IsNone(a.to_date)
        \/ Val(a.from_date) <= Val(a.to_date)

\* the kpi a compute function gives when it has no rows
EmptyKpi(fn, a) ==
    CASE fn = "product_inflation_index" -> None
      [] fn = "product_store_price_stats"
            -> Some([product_id |-> Val(a.product_id), stores |-> 0])
      [] fn = "inflation_contributions"
            -> Some([by |-> a.by, base_period |-> None,
                     target_period |-> None])
      [] OTHER
            -> Some([base_period |-> None, last_period |-> None,
                     periods |-> 0, items_in_base |-> 0,
                     items_total_base_weight |-> Zero,
                     coverage_last |-> Zero, index_last |-> None,
                     inflation_total |-> None])

ReturnsEmpty ==
    /\ result.raised = ""
    /\ result.points = << >>
    /\ result.kpi = EmptyKpi(result.fn, result.args)

\* C1 as stated: a compute function called with valid literals and a filter
\* that matches no purchase returns points = [] and a null, zeroed or
\* partial kpi, and does not raise.
C1_EmptyInputAnyDates == (CalledValid /\ NoRowMatches) => ReturnsEmpty

\* C1 amended: a compute function called with valid literals and a filter
\* that matches no purchase, whose from_date is not after its to_date when
\* both are given, returns points = [] and a null, zeroed or partial kpi,
\* and does not raise.  (With from_date after to_date the fetch raises
\* ValueError.)
C1_EmptyInputSafe ==
    (CalledValid /\ DateRangeOrdered(result.args) /\ NoRowMatches)
        => ReturnsEmpty

\* C1: purchases are stored, the filter of an index call matches none of
\* them, and the call returned the empty result
C1_Witness ==
    /\ result.fn = "category_inflation_index"
    /\ ValidLiterals(result.args)
    /\ Len(db) >= 2
    /\ ~IsNone(result.args.from_date)
    /\ NoRowMatches
    /\ ReturnsEmpty

\* C2: a compute function called with a group_by, price_mode or promo_mode
\* outside the literals of the engine raises ValueError and has not called
\* list_purchases_filtered.
C2_RejectsUnknownLiterals ==
    (result.fn \in ComputeFns
        /\ ~ValidLiterals(Masked(result.fn, result.args)))
        => (result.raised = "ValueError" /\ result.fetches = 0)

\* C2: a call with promo_mode "all" over stored purchases was rejected
\* before the fetch
C2_Witness ==
    /\ result.fn = "store_inflation_index"
    /\ result.args.promo_mode = "all"
    /\ Len(db) >= 1
    /\ result.raised = "ValueError"
    /\ result.fetches = 0

\* the prepared rows of the call in progress
Prepared(P) ==
    Val(_prepare_df_for_index(db, Masked(result.fn, result.args), P))

Slice(df, p, t) ==
    SelectSeq(df, LAMBDA r : r.product_id = p /\ r.period = t)

\* summed spend and quantity of product p in period t
SpendIn(df, p, t, P) ==
    GroupSum(P, SeqMap(LAMBDA r : r.spend, Slice(df, p, t)))

QtyIn(df, p, t, P) ==
    GroupSum(P, SeqMap(LAMBDA r : r.quantity, Slice(df, p, t)))

Bought(df, p, t, P) == RPos(QtyIn(df, p, t, P)) /\ RPos(SpendIn(df, p, t, P))

PriceIn(df, p, t, P) == FDiv(P, SpendIn(df, p, t, P), QtyIn(df, p, t, P))

PeriodsOf(df) == {df[i].period : i \in 1..Len(df)}

\* the supplied base period, else the earliest period of the rows
BasePeriodOf(df, a) ==
    IF ~IsNone(a.base_period) THEN Val(a.base_period)
    ELSE SetMin(PeriodsOf(df))

\* the basket of base period b, and its products bought in period t
BasketOf(df, b, P) == {p \in Products : Bought(df, p, b, P)}

MatchedIn(df, b, t, P) == {p \in BasketOf(df, b, P) : Bought(df, p, t, P)}

\* W of the products of S, in ascending product id
InOrder(S, W(_)) ==
    [i \in 1..Cardinality(S) |->
        W(CHOOSE p \in S : Cardinality({q \in S : q < p}) = i - 1)]

\* 100 * SUM(base_weight * price / base_price) / SUM(base_weight) over the
\* basket products bought in t
LaspeyresOf(df, b, t, P) ==
    FDiv(P,
         FMul(P, Hundred,
              GroupSum(P, InOrder(MatchedIn(df, b, t, P),
                      LAMBDA p : FMul(P, SpendIn(df, p, b, P),
                                      FDiv(P, PriceIn(df, p, t, P),
                                           PriceIn(df, p, b, P)))))),
         GroupSum(P, InOrder(MatchedIn(df, b, t, P),
                             LAMBDA p : SpendIn(df, p, b, P))))

\* the call in progress is a Laspeyres index that returned over some rows
IndexReturned(P) ==
    /\ result.fn \in IndexFns
    /\ result.raised = ""
    /\ Len(Prepared(P)) > 0

\* C3: for a Laspeyres index over prepared rows, the base period is the
\* supplied period or else the earliest period of the rows; the basket is
\* the products with positive summed quantity and spend in it, weighted by
\* their base spend; and every point has index = 100 * SUM(base_weight *
\* price / base_price) / SUM(base_weight) over the basket products with
\* positive summed quantity and spend in the point's period.
C3_LaspeyresFormula ==
    IndexReturned(0) =>
        LET df == Prepared(0)
            b  == BasePeriodOf(Prepared(0), result.args)
            k  == Val(result.kpi)
        IN  /\ k.base_period = Some(IsoDate(b))
            /\ k.items_in_base = Cardinality(BasketOf(df, b, 0))
            /\ k.items_total_base_weight =
                  FSum(0, InOrder(BasketOf(df, b, 0),
                                  LAMBDA p : SpendIn(df, p, b, 0)))
            /\ \A i \in 1..Len(result.points) :
                  \E t \in PeriodsOf(df) :
                      /\ result.points[i].period = IsoDate(t)
                      /\ result.points[i].index = LaspeyresOf(df, b, t, 0)

\* C3: _laspeyres_index was given the base period January, two products
\* are in the basket and the third point is away from 100
C3_Witness ==
    /\ result.fn = "_laspeyres_index"
    /\ result.args.base_period = Some(D(1, 1))
    /\ result.raised = ""
    /\ Len(result.points) = 3
    /\ Val(result.kpi).items_in_base = 2
    /\ result.points[3].index # Hundred

\* C5: a Laspeyres index has a point for a period of its rows if and only
\* if a basket product has positive quantity and spend in that period, and
\* every point has items >= 1 and index > 0.
C5_EmitsOnlyMatchedPeriods ==
    IndexReturned(0) =>
        LET df == Prepared(0)
            b  == BasePeriodOf(Prepared(0), result.args)
        IN  /\ \A t \in PeriodsOf(df) :
                  (\E i \in 1..Len(result.points) :
                      result.points[i].period = IsoDate(t))
                  <=> MatchedIn(df, b, t, 0) # {}
            /\ \A i \in 1..Len(result.points) :
                  /\ \E t \in PeriodsOf(df) :
                        result.points[i].period = IsoDate(t)
                  /\ result.points[i].items >= 1
                  /\ RPos(result.points[i].index)

\* C5: the basket index returned points, and a period of its rows holds no
\* basket product
C5_Witness ==
    /\ result.fn = "basket_inflation_index"
    /\ result.raised = ""
    /\ Len(result.points) >= 2
    /\ \E t \in PeriodsOf(Prepared(0)) :
          MatchedIn(Prepared(0),
                    BasePeriodOf(Prepared(0), result.args), t, 0) = {}

\* the ISO date x is before the ISO date y
DateLt(x, y) ==
    \/ x[1] < y[1]
    \/ x[1] = y[1] /\ x[2] < y[2]
    \/ x[1] = y[1] /\ x[2] = y[2] /\ x[3] < y[3]

\* C6: the points of product_inflation_index and of the Laspeyres indices
\* are strictly increasing in period.
C6_PeriodsStrictlyIncreasing ==
    (result.fn \in IndexFns \cup {"product_inflation_index"}
        /\ result.raised = "")
        => \A i \in 1..(Len(result.points) - 1) :
              DateLt(result.points[i].period, result.points[i + 1].period)

\* C6: the store index returned several points
C6_Witness ==
    /\ result.fn = "store_inflation_index"
    /\ result.raised = ""
    /\ Len(result.points) >= 2

\* the scenario of C8: product 1 alone, bought in January (2 for 100),
\* February (2 for 120) and March (2 for 150), by month, paid, include
Scenario ==
    /\ result.fn = "product_inflation_index"
    /\ result.args = [BaseArgs EXCEPT !.product_id = Some(1)]
    /\ Len(db) = 3
    /\ \A i \in 1..3 :
          /\ db[i].product_id = 1
          /\ db[i].quantity = 2000
          /\ ~db[i].is_promo
          /\ CivilFromDays(db[i].purchase_date)[2] = i
    /\ db[1].total_price = 10000
    /\ db[2].total_price = 12000
    /\ db[3].total_price = 15000

ScenarioPoints ==
    /\ result.raised = ""
    /\ Len(result.points) = 3
    /\ result.points[1].avg_unit_price = <<50, 1>>
    /\ result.points[2].avg_unit_price = <<60, 1>>
    /\ result.points[3].avg_unit_price = <<75, 1>>
    /\ result.points[1].index_100 = <<100, 1>>
    /\ result.points[2].index_100 = <<120, 1>>
    /\ result.points[3].index_100 = <<150, 1>>
    /\ Val(result.kpi).change_vs_prev_period_pct = Some(<<25, 1>>)

\* C8 as stated: in the scenario the points have avg_unit_price 50, 60, 75
\* and index_100 100, 120, 150, and the kpi has inflation_total = 50.0 and
\* change_vs_prev_period_pct = 25.0.
C8_ScenarioInflationTotal ==
    Scenario =>
        /\ ScenarioPoints
        /\ "inflation_total" \in DOMAIN Val(result.kpi)
        /\ Val(result.kpi).inflation_total = <<50, 1>>

\* C8 amended: in the scenario the points have avg_unit_price 50, 60, 75
\* and index_100 100, 120, 150, and the kpi has change_vs_prev_period_pct =
\* 25.0 and last_index_100 = 150.0; the kpi of product_inflation_index has
\* no inflation_total, the value 50.0 is the last point's
\* inflation_pct_from_base.
C8_ScenarioValues ==
    Scenario =>
        /\ ScenarioPoints
        /\ "inflation_total" \notin DOMAIN Val(result.kpi)
        /\ Val(result.kpi).last_index_100 = <<150, 1>>
        /\ result.points[3].inflation_pct_from_base = <<50, 1>>

\* C8: the scenario was run and returned
C8_Witness == Scenario /\ result.raised = "" /\ ~IsNone(result.kpi)

\* C9: the kpi of product_inflation_index has change_vs_prev_period_pct =
\* (last.avg_unit_price / prev.avg_unit_price - 1) * 100 over its last two
\* points, and None exactly when there are fewer than two points or
\* prev.avg_unit_price is 0.
C9_ChangeVsPrevPeriod ==
    (result.fn = "product_inflation_index" /\ ~IsNone(result.kpi)) =>
        LET n    == Len(result.points)
            last == result.points[n].avg_unit_price
            prev == result.points[n - 1].avg_unit_price
            mom  == Val(result.kpi).change_vs_prev_period_pct
        IN  /\ IsNone(mom) <=> (n < 2 \/ prev = Zero)
            /\ ~IsNone(mom) =>
                  Val(mom) = FMul(0, FSub(0, FDiv(0, last, prev), One),
                                  Hundred)

\* C9: the last two points are January and March, February has no data,
\* and the change is measured from January
C9_Witness ==
    /\ result.fn = "product_inflation_index"
    /\ result.args.group_by = "month"
    /\ Len(result.points) = 2
    /\ result.points[1].period = <<2025, 1, 1>>
    /\ result.points[2].period = <<2025, 3, 1>>
    /\ ~IsNone(Val(result.kpi).change_vs_prev_period_pct)

\* |q - c| <= ulps units in the last place of c, for floats of MantBits
\* bits whose last place at c is 2^e
Within(q, c, ulps, e) ==
    Abs(q[1] - c * q[2]) * Pow2(MantBits) <= ulps * Pow2(e) * q[2]

\* the base weights of the products of S, in ascending product id
WeightsOf(df, b, S, P) == InOrder(S, LAMBDA p : SpendIn(df, p, b, P))

\* the coverage of every point is the matched base weight (a groupby sum)
\* over the total base weight (a Series sum); InRange(coverage, n) is
\* required of every point and AtBase(point, n) of the base period's
\* point, n being the number of products of the basket
CoverageHolds(InRange(_, _), AtBase(_, _)) ==
    IndexReturned(MantBits) =>
        LET df == Prepared(MantBits)
            b  == BasePeriodOf(Prepared(MantBits), result.args)
        IN  \A i \in 1..Len(result.points) :
              \E t \in PeriodsOf(df) :
                  /\ result.points[i].period = IsoDate(t)
                  /\ result.points[i].coverage =
                        FDiv(MantBits,
                             GroupSum(MantBits,
                                 WeightsOf(df, b,
                                     MatchedIn(df, b, t, MantBits),
                                     MantBits)),
                             FSum(MantBits,
                                 WeightsOf(df, b, BasketOf(df, b, MantBits),
                                           MantBits)))
                  /\ InRange(result.points[i].coverage,
                             Cardinality(BasketOf(df, b, MantBits)))
                  /\ t = b =>
                        AtBase(result.points[i],
                               Cardinality(BasketOf(df, b, MantBits)))

\* C4 as stated: every point of a Laspeyres index has coverage = (base
\* weight of the products matched in its period) / (total base weight) in
\* [0, 1], and the base period's point has coverage exactly 1 and index
\* exactly 100.
C4_BaseIndexExactly100 ==
    CoverageHolds(LAMBDA c, n : RLe(Zero, c) /\ RLe(c, One),
                  LAMBDA pt, n : pt.coverage = One /\ pt.index = Hundred)

\* C4 amended: every point of a Laspeyres index has coverage = (base weight
\* of the products matched in its period) / (total base weight), which is
\* positive and at most 1 up to the rounding of the two sums and the
\* division (n + 2 units in the last place of 1 for a basket of n
\* products); the base period's point has coverage 1 within that rounding
\* and an index within one unit in the last place of 100 (100.0 * s / s is
\* rounded twice).
C4_CoverageAndBaseIndex ==
    CoverageHolds(LAMBDA c, n : RPos(c)
                                /\ (RLe(c, One) \/ Within(c, 1, n + 2, 0)),
                  LAMBDA pt, n : Within(pt.coverage, 1, n + 2, 0)
                                 /\ Within(pt.index, 100, 1, 7))

\* C4: the basket index returned the base period and a period in which
\* only a part of the basket was bought
C4_Witness ==
    /\ result.fn = "basket_inflation_index"
    /\ result.raised = ""
    /\ Len(result.points) >= 2
    /\ result.points[1].period =
          IsoDate(BasePeriodOf(Prepared(MantBits), result.args))
    /\ result.points[1].coverage = One
    /\ result.points[2].coverage # One

\* C7: when product_inflation_index returns points, the first has
\* index_100 exactly 100 and every point has avg_unit_price = (summed
\* spend) / (summed quantity) of its period, index_100 = avg_unit_price /
\* (first avg_unit_price) * 100 and inflation_pct_from_base = index_100 -
\* 100.
C7_ProductSelfNormalized ==
    (result.fn = "product_inflation_index" /\ result.raised = ""
        /\ Len(result.points) > 0) =>
        LET df == Prepared(MantBits)
        IN  /\ result.points[1].index_100 = Hundred
            /\ \A i \in 1..Len(result.points) :
                  \E t \in PeriodsOf(df) :
                      /\ result.points[i].period = IsoDate(t)
                      /\ result.points[i].avg_unit_price =
                            PriceIn(df, Val(result.args.product_id), t,
                                    MantBits)
                      /\ result.points[i].index_100 =
                            FMul(MantBits,
                                 FDiv(MantBits,
                                      result.points[i].avg_unit_price,
                                      result.points[1].avg_unit_price),
                                 Hundred)
                      /\ result.points[i].inflation_pct_from_base =
                            FSub(MantBits, result.points[i].index_100,
                                 Hundred)

\* C7: product_inflation_index returned three points, the last away from
\* 100
C7_Witness ==
    /\ result.fn = "product_inflation_index"
    /\ result.raised = ""
    /\ Len(result.points) = 3
    /\ result.points[1].index_100 = Hundred
    /\ result.points[3].index_100 # Hundred

\* the call in progress is inflation_contributions by product with rows
ContribByProduct ==
    /\ result.fn = "inflation_contributions"
    /\ result.args.by = "product"
    /\ result.raised = ""
    /\ Len(result.points) > 0

\* the products with a positive price in the base and in the target period
ContribMatched ==
    MatchedIn(Prepared(MantBits), SetMin(PeriodsOf(Prepared(MantBits))),
              SetMax(PeriodsOf(Prepared(MantBits))), MantBits)

\* the share_w of the returned rows added up as floats
SharesSum == FSum(MantBits, SeqMap(LAMBDA r : r.share_w, result.points))

\* the returned share_w: Full(sum, n) when top covers the n matched
\* products, Part(sum, n) when top is smaller
SharesHold(Full(_, _), Part(_, _)) ==
    ContribByProduct =>
        LET n == Cardinality(ContribMatched)
        IN  IF result.args.top >= n
            THEN Len(result.points) = n /\ Full(SharesSum, n)
            ELSE Len(result.points) = Max(1, result.args.top)
                    /\ Part(SharesSum, n)

\* C10 as stated: the share_w of all matched products sum to exactly 1, so
\* by product with top >= the number of matched products the returned
\* share_w sum to 1, and with a smaller top to at most 1.
C10_SharesSumExactly1 ==
    SharesHold(LAMBDA q, n : q = One, LAMBDA q, n : RLe(q, One))

\* C10 amended: the share_w of the n matched products sum to 1 up to the
\* rounding of the divisions and additions (within 2n units in the last
\* place of 1), so by product with top >= n the returned share_w sum to 1
\* within that tolerance, and with a smaller top to at most 1 plus that
\* tolerance.
C10_SharesSumNear1 ==
    SharesHold(LAMBDA q, n : Within(q, 1, 2 * n, 0),
               LAMBDA q, n : RLe(q, One) \/ Within(q, 1, 2 * n, 0))

\* C10: contributions by product returned both matched products
C10_Witness ==
    /\ ContribByProduct
    /\ result.args.top = 10
    /\ Cardinality(ContribMatched) = 2
    /\ Len(result.points) = 2

\* base and target period of inflation_contributions: the earliest and the
\* latest period of the prepared rows
ContribBase(df) == SetMin(PeriodsOf(df))

ContribTarget(df) == SetMax(PeriodsOf(df))

\* sum_w: the base weights of the matched products, added in ascending
\* product id
CoveredWeight(df, P) ==
    FSum(P, WeightsOf(df, ContribBase(df),
                      MatchedIn(df, ContribBase(df), ContribTarget(df), P),
                      P))

\* C11: inflation_contributions by product takes the earliest period of
\* the prepared rows as base and the latest as target; every returned
\* point is a matched product with ratio = target_price / base_price,
\* share_w = base_weight / sum_w and contribution = share_w * (ratio - 1) *
\* 100, where sum_w is the sum of the base weights of the matched products
\* only and is the kpi's covered_weight; with top not below the number of
\* matched products every matched product is returned.
C11_ContributionFormula ==
    ContribByProduct =>
        LET df == Prepared(MantBits)
            b  == ContribBase(Prepared(MantBits))
            t  == ContribTarget(Prepared(MantBits))
            k  == Val(result.kpi)
        IN  /\ k.base_period = Some(IsoDate(b))
            /\ k.target_period = Some(IsoDate(t))
            /\ k.covered_weight = CoveredWeight(df, MantBits)
            /\ \A i \in 1..Len(result.points) :
                  LET r == result.points[i]
                  IN  /\ r.product_id \in ContribMatched
                      /\ r.ratio =
                            FDiv(MantBits,
                                 PriceIn(df, r.product_id, t, MantBits),
                                 PriceIn(df, r.product_id, b, MantBits))
                      /\ r.share_w =
                            FDiv(MantBits,
                                 SpendIn(df, r.product_id, b, MantBits),
                                 k.covered_weight)
                      /\ r.contribution =
                            FMul(MantBits,
                                 FMul(MantBits, r.share_w,
                                      FSub(MantBits, r.ratio, One)),
                                 Hundred)
            /\ result.args.top >= Cardinality(ContribMatched) =>
                  {result.points[i].product_id :
                      i \in 1..Len(result.points)} = ContribMatched

\* C11: contributions between two different periods, with a product of the
\* base period that was not bought in the target period, and a matched
\* product whose price changed
C11_Witness ==
    /\ ContribByProduct
    /\ ContribBase(Prepared(MantBits)) # ContribTarget(Prepared(MantBits))
    /\ BasketOf(Prepared(MantBits), ContribBase(Prepared(MantBits)),
                MantBits) # ContribMatched
    /\ result.points[1].ratio # One
    /\ result.points[1].contribution # Zero

\* inflation_contributions returned over prepared rows of a single period
ContribSinglePeriod ==
    /\ result.fn = "inflation_contributions"
    /\ result.raised = ""
    /\ Len(Prepared(MantBits)) > 0
    /\ Cardinality(PeriodsOf(Prepared(MantBits))) = 1

Min(a, b) == IF a <= b THEN a ELSE b

\* C12: when the prepared rows of inflation_contributions lie in a single
\* period, the call returns after one fetch, base and target period are
\* that period, by product there is one point per matched product up to
\* top, each with ratio exactly 1 and contribution exactly 0, and by
\* category every contribution is exactly 0
C12_SinglePeriod ==
    ContribSinglePeriod =>
        /\ result.fetches = 1
        /\ Val(result.kpi).base_period = Val(result.kpi).target_period
        /\ Len(result.points) > 0
        /\ \A i \in 1..Len(result.points) :
              result.points[i].contribution = Zero
        /\ result.args.by = "product" =>
              /\ Len(result.points) =
                    Min(Max(1, result.args.top), Cardinality(ContribMatched))
              /\ Cardinality({result.points[i].product_id :
                                 i \in 1..Len(result.points)})
                    = Len(result.points)
              /\ \A i \in 1..Len(result.points) :
                    /\ result.points[i].product_id \in ContribMatched
                    /\ result.points[i].ratio = One

\* C12: two products returned by product over a year that holds purchases
\* of one product at different unit prices
C12_Witness ==
    /\ ContribSinglePeriod
    /\ result.args.by = "product"
    /\ result.args.group_by = "year"
    /\ Len(result.points) = 2
    /\ \E i, j \in 1..Len(Prepared(MantBits)) :
          /\ Prepared(MantBits)[i].product_id = Prepared(MantBits)[j].product_id
          /\ Prepared(MantBits)[i].unit_price_used
                # Prepared(MantBits)[j].unit_price_used

\* inflation_contributions by product returned over prepared rows, in exact
\* arithmetic
ContribProductRows ==
    /\ result.fn = "inflation_contributions"
    /\ result.args.by = "product"
    /\ result.raised = ""
    /\ Len(Prepared(0)) > 0

\* the matched products of the call in progress, in exact arithmetic
MatchedRows ==
    MatchedIn(Prepared(0), ContribBase(Prepared(0)),
              ContribTarget(Prepared(0)), 0)

\* share_w * (ratio - 1) * 100 of matched product p
ContribOf(df, p, P) ==
    FMul(P,
         FMul(P,
              FDiv(P, SpendIn(df, p, ContribBase(df), P),
                   CoveredWeight(df, P)),
              FSub(P,
                   FDiv(P, PriceIn(df, p, ContribTarget(df), P),
                        PriceIn(df, p, ContribBase(df), P)),
                   One)),
         Hundred)

PointIds == {result.points[i].product_id : i \in 1..Len(result.points)}

\* C13: by product with top >= 1, inflation_contributions returns
\* min(top, M) points for M matched products, all of different matched
\* products, in order of non-increasing contribution, and no matched
\* product left out has a greater contribution than a returned one
C13_TopByProduct ==
    (ContribProductRows /\ result.args.top >= 1) =>
        /\ Len(result.points) =
              Min(result.args.top, Cardinality(MatchedRows))
        /\ PointIds \subseteq MatchedRows
        /\ Cardinality(PointIds) = Len(result.points)
        /\ \A i, j \in 1..Len(result.points) :
              i < j => RLe(result.points[j].contribution,
                           result.points[i].contribution)
        /\ \A p \in MatchedRows \ PointIds :
              \A i \in 1..Len(result.points) :
                 RLe(ContribOf(Prepared(0), p, 0),
                     result.points[i].contribution)

\* C13: top = 1 with two matched products, of which the one left out has
\* the smaller id and the strictly smaller contribution
C13_Witness ==
    /\ ContribProductRows
    /\ result.args.top = 1
    /\ Cardinality(MatchedRows) = 2
    /\ Len(result.points) = 1
    /\ \E p \in MatchedRows \ PointIds :
          /\ p < result.points[1].product_id
          /\ RLt(ContribOf(Prepared(0), p, 0), result.points[1].contribution)

\* inflation_contributions by category returned points
ContribByCategoryRet ==
    /\ result.fn = "inflation_contributions"
    /\ result.args.by = "category"
    /\ result.raised = ""
    /\ Len(result.points) > 0

\* the category id of product p, -1 when it has none
CatIdOf(p) ==
    IF IsNone(ProductCategory(p)) THEN -1 ELSE Val(ProductCategory(p))

\* the matched products of category c, and the categories of the matched
\* products
MembersOf(c) == {p \in ContribMatched : CatIdOf(p) = c}

MatchedCategories == {CatIdOf(p) : p \in ContribMatched}

\* share_w of matched product p
ShareOf(df, p, P) ==
    FDiv(P, SpendIn(df, p, ContribBase(df), P), CoveredWeight(df, P))

\* the points the same call returns by product without truncation
ProductPoints ==
    inflation_contributions(db, [result.args EXCEPT !.by = "product",
                                                    !.top = 10],
                            MantBits).points

RAbs(a) == <<Abs(a[1]), a[2]>>

\* |a - b| <= k * 2^-MantBits * (|s[1]| + ... + |s[n]|)
NearBy(a, b, s, k) ==
    RLe(FMul(0, RAbs(FSub(0, a, b)), <<Pow2(MantBits), 1>>),
        FMul(0, <<k, 1>>, FSum(0, SeqMap(LAMBDA x : RAbs(x), s))))

\* every category point is the sentinel or a category of a matched product
\* and carries the sums over its matched products; the points are ordered
\* and cut to top; Same(category total, product total, product values, n)
\* is required of the contributions and of the share_w when no category of
\* the n matched products is cut
CategoryHolds(Same(_, _, _, _)) ==
    ContribByCategoryRet =>
        /\ \A i \in 1..Len(result.points) :
              LET r == result.points[i]
              IN  /\ MembersOf(r.category_id) # {}
                  /\ r.category_id = -1 <=>
                        \A p \in MembersOf(r.category_id) :
                           IsNone(ProductCategory(p))
                  /\ r.category = IF r.category_id = -1 THEN "UNKNOWN"
                                  ELSE CategoryName(r.category_id)
                  /\ r.contribution =
                        GroupSum(MantBits,
                            InOrder(MembersOf(r.category_id),
                                LAMBDA p : ContribOf(Prepared(MantBits), p,
                                                     MantBits)))
                  /\ r.share_w =
                        GroupSum(MantBits,
                            InOrder(MembersOf(r.category_id),
                                LAMBDA p : ShareOf(Prepared(MantBits), p,
                                                   MantBits)))
                  /\ r.items = Cardinality(MembersOf(r.category_id))
        /\ \A i, j \in 1..Len(result.points) :
              i < j => /\ result.points[i].category_id
                             # result.points[j].category_id
                       /\ RLe(result.points[j].contribution,
                              result.points[i].contribution)
        /\ Len(result.points) =
              Min(Max(1, result.args.top), Cardinality(MatchedCategories))
        /\ Len(result.points) = Cardinality(MatchedCategories) =>
              /\ Same(FSum(MantBits, SeqMap(LAMBDA r : r.contribution,
                                            result.points)),
                      FSum(MantBits, SeqMap(LAMBDA r : r.contribution,
                                            ProductPoints)),
                      SeqMap(LAMBDA r : r.contribution, ProductPoints),
                      Len(ProductPoints))
              /\ Same(FSum(MantBits, SeqMap(LAMBDA r : r.share_w,
                                            result.points)),
                      FSum(MantBits, SeqMap(LAMBDA r : r.share_w,
                                            ProductPoints)),
                      SeqMap(LAMBDA r : r.share_w, ProductPoints),
                      Len(ProductPoints))

\* C14 as stated: by category every matched product counts for its
\* category, or for the sentinel (-1, 'UNKNOWN') when it has none; a
\* category point carries the sum of its products' contributions, the sum
\* of their share_w and the number of its products; the points are in
\* order of non-increasing contribution and cut to top; and when no
\* category is cut, the contributions and the share_w of the category
\* points add up to the same totals as those of the product points.
C14_CategoryTotalsEqual ==
    CategoryHolds(LAMBDA c, p, s, n : c = p)

\* C14 amended: as stated, except that the totals over the category points
\* and over the product points agree up to the rounding of the additions
\* (within 2n units in the last place of the sum of the absolute values,
\* for n matched products).
C14_CategoryTotalsNear ==
    CategoryHolds(LAMBDA c, p, s, n : NearBy(c, p, s, 2 * n))

\* C14: both the category of products 1 and 2 and the sentinel category of
\* product 3 are returned, and the contributions of the category points
\* and of the product points add up to different floats
C14_Witness ==
    /\ ContribByCategoryRet
    /\ Len(result.points) = 2
    /\ \E i \in 1..2 : /\ result.points[i].category_id = -1
                       /\ result.points[i].category = "UNKNOWN"
                       /\ result.points[i].items = 1
    /\ \E i \in 1..2 : /\ result.points[i].category_id = 1
                       /\ result.points[i].items = 2
    /\ FSum(MantBits, SeqMap(LAMBDA r : r.contribution, result.points))
          # FSum(MantBits, SeqMap(LAMBDA r : r.contribution, ProductPoints))

\* the call in progress is _compute_price_and_spend
ComputeCalled == result.fn = "_compute_price_and_spend"

\* the cell holds a number greater than 0
PositiveNumber(x) == x # None /\ x # Text /\ x[1] > 0

\* the unit price cell the price mode chooses for row r of a frame
ChosenCell(r, price_mode) ==
    IF price_mode = "regular" /\ r.regular_unit_price # None
       /\ Val(r.regular_unit_price) # Text
    THEN Val(r.regular_unit_price)
    ELSE r.unit_price

\* the rows of the frame with a positive quantity and chosen unit price
CleanRows(df, price_mode) ==
    SelectSeq(df, LAMBDA r : /\ PositiveNumber(r.quantity)
                             /\ PositiveNumber(ChosenCell(r, price_mode)))

\* C15: _compute_price_and_spend returns without raising; the rows it
\* returns are, in order, the rows of the frame whose quantity and chosen
\* unit price are numbers greater than 0, so that a row whose quantity or
\* chosen unit price is missing, text, zero or negative is dropped; and
\* every returned row has quantity > 0, unit_price_used > 0 and
\* spend = unit_price_used * quantity > 0
C15_PreparedRowsPositive ==
    ComputeCalled =>
        /\ result.raised = ""
        /\ SeqMap(LAMBDA r : r.id, result.points)
              = SeqMap(LAMBDA r : r.id,
                       CleanRows(result.args.df, result.args.price_mode))
        /\ \A i \in 1..Len(result.points) :
              LET r == result.points[i]
              IN  /\ RPos(r.quantity)
                  /\ RPos(r.unit_price_used)
                  /\ r.spend = Rat(r.unit_price_used[1] * r.quantity[1],
                                   r.unit_price_used[2] * r.quantity[2])
                  /\ RPos(r.spend)

\* C15: of a frame of two rows, the first, with text for a quantity, is
\* dropped and the second, whose regular price is zero, is kept at its paid
\* price
C15_Witness ==
    /\ ComputeCalled
    /\ result.args.price_mode = "paid"
    /\ Len(result.args.df) = 2
    /\ result.args.df[1].quantity = Text
    /\ result.args.df[2].regular_unit_price = Some(Zero)
    /\ Len(result.points) = 1
    /\ result.points[1].id = 2
    /\ result.points[1].spend = <<5, 1>>

\* the call in progress is _apply_promo_filter
PromoFilterCalled == result.fn = "_apply_promo_filter"

\* the rows of the frame whose is_promo cell is TRUE
OnPromo(df) ==
    SelectSeq(df, LAMBDA r : "is_promo" \in DOMAIN r /\ r.is_promo = TRUE)

\* the rows of the frame whose is_promo cell is FALSE or missing
OffPromo(df) ==
    SelectSeq(df, LAMBDA r : "is_promo" \notin DOMAIN r \/ r.is_promo = FALSE)

\* C16: _apply_promo_filter keeps every row of the frame for include, the
\* rows whose is_promo is false or missing for exclude, and the rows whose
\* is_promo is true for only; no row is kept by both exclude and only, and
\* every row of the frame is kept by one of them
C16_PromoFilter ==
    PromoFilterCalled =>
        /\ result.raised = ""
        /\ result.args.promo_mode = "include" =>
              result.points = result.args.df
        /\ result.args.promo_mode = "exclude" =>
              result.points = OffPromo(result.args.df)
        /\ result.args.promo_mode = "only" =>
              result.points = OnPromo(result.args.df)
        /\ Range(_apply_promo_filter(result.args.df, "exclude"))
              \cap Range(_apply_promo_filter(result.args.df, "only")) = {}
        /\ Range(_apply_promo_filter(result.args.df, "exclude"))
              \cup Range(_apply_promo_filter(result.args.df, "only"))
              = Range(_apply_promo_filter(result.args.df, "include"))

\* C16: exclude on a frame of a row on promotion, a row not on promotion
\* and a row without the cell kept the last two
C16_Witness ==
    /\ PromoFilterCalled
    /\ result.args.promo_mode = "exclude"
    /\ result.args.df
          = <<PromoRow(1, Some(TRUE)), PromoRow(2, Some(FALSE)),
              PromoRow(3, None)>>
    /\ SeqMap(LAMBDA r : r.id, result.points) = <<2, 3>>

\* the call in progress is _prepare_df_for_index for promotions only, and
\* its fetch did not raise
PrepareOnly ==
    /\ result.fn = "_prepare_df_for_index"
    /\ result.args.promo_mode = "only"
    /\ result.raised = ""

\* what a repository that ignores is_promo returns for the filter of a
FetchedIgnoringPromo(a) ==
    Val(list_purchases_filtered(db,
           [from_date   |-> a.from_date,
            to_date     |-> a.to_date,
            store_id    |-> a.store_id,
            product_id  |-> a.product_id,
            product_ids |-> a.product_ids,
            category_id |-> a.category_id,
            is_promo    |-> None]))

\* the promo filter, the price and the period applied to a frame
NormalizedFrame(df, a, P) ==
    SeqMap(LAMBDA r : [r EXCEPT !.period =
                          _period_start(r.purchase_date, a.group_by)],
           _compute_price_and_spend(_apply_promo_filter(df, a.promo_mode),
                                    a.price_mode, P))

\* C17: for promo_mode = only, the prepared rows are the rows the
\* normalizer makes of the purchases a repository returns that ignores
\* is_promo; and the promo filter applied a second time to the filtered
\* frame leaves it as it is
C17_PromoPrefilterRedundant ==
    PrepareOnly =>
        /\ result.points
              = NormalizedFrame(
                   _purchases_to_df(FetchedIgnoringPromo(result.args), 0),
                   result.args, 0)
        /\ _apply_promo_filter(
              _apply_promo_filter(
                 _purchases_to_df(FetchedIgnoringPromo(result.args), 0),
                 "only"),
              "only")
              = _apply_promo_filter(
                   _purchases_to_df(FetchedIgnoringPromo(result.args), 0),
                   "only")

\* C17: rows prepared for promotions only, where a repository that ignores
\* is_promo returns purchases on promotion and purchases that are not
C17_Witness ==
    /\ PrepareOnly
    /\ Len(result.points) > 0
    /\ \E i, j \in 1..Len(FetchedIgnoringPromo(result.args)) :
          /\ FetchedIgnoringPromo(result.args)[i].is_promo
          /\ ~FetchedIgnoringPromo(result.args)[j].is_promo

\* the call in progress is _prepare_df_for_index, and its fetch did not raise
PrepareReturned ==
    /\ result.fn = "_prepare_df_for_index"
    /\ result.raised = ""

\* the stored purchase a prepared row was made of
StoredRow(r) == CHOOSE p \in Range(db) : p.id = r.id

\* the paid unit price of a stored purchase: Purchase.unit_price, in cents
PaidPrice(p) == Rat(unit_price(p), 100)

\* C18: every prepared row carries as unit_price_used the paid unit price
\* of its purchase when price_mode = paid; when price_mode = regular, the
\* regular_unit_price of its purchase if it has one and the paid unit price
\* if it has none; and as spend unit_price_used * quantity
C18_UnitPriceUsed ==
    PrepareReturned =>
        \A i \in 1..Len(result.points) :
           LET r == result.points[i]
           IN  /\ \E p \in Range(db) : p.id = r.id
               /\ r.unit_price_used =
                     IF result.args.price_mode = "regular"
                        /\ ~IsNone(StoredRow(r).regular_unit_price)
                     THEN Rat(Val(StoredRow(r).regular_unit_price), 100)
                     ELSE PaidPrice(StoredRow(r))
               /\ r.quantity = Rat(StoredRow(r).quantity, 1000)
               /\ r.spend = Rat(r.unit_price_used[1] * r.quantity[1],
                                r.unit_price_used[2] * r.quantity[2])

\* C18: rows prepared at regular prices, of which one has a regular price
\* other than its paid price and another has none and carries its paid
\* price
C18_Witness ==
    /\ PrepareReturned
    /\ result.args.price_mode = "regular"
    /\ \E i, j \in 1..Len(result.points) :
          /\ ~IsNone(StoredRow(result.points[i]).regular_unit_price)
          /\ result.points[i].unit_price_used
                # PaidPrice(StoredRow(result.points[i]))
          /\ IsNone(StoredRow(result.points[j]).regular_unit_price)
          /\ result.points[j].unit_price_used
                = PaidPrice(StoredRow(result.points[j]))

\* the call in progress is _period_start
PeriodStartCalled == result.fn = "_period_start"

\* day z is a Monday: a whole number of weeks from Monday 2024-01-01
IsMonday(z) == (z - DaysFromCivil(2024, 1, 1)) % 7 = 0

\* C19: the period of purchase date d is d itself for day; for week the
\* Monday of the week of d, that is the last Monday not after d; for month
\* the first day of the month of d; for year the first of January of the
\* year of d
C19_PeriodStart ==
    PeriodStartCalled =>
        LET d == result.args.purchase_date
            p == result.points[1]
            g == result.args.group_by
        IN  /\ g = "day" => p = d
            /\ g = "week" => IsMonday(p) /\ p <= d /\ d - p <= 6
            /\ g = "month" =>
                  CivilFromDays(p)
                     = <<CivilFromDays(d)[1], CivilFromDays(d)[2], 1>>
            /\ g = "year" =>
                  CivilFromDays(p) = <<CivilFromDays(d)[1], 1, 1>>

\* C19: the week of Wednesday 2025-01-01 starts on Monday 2024-12-30, in
\* the year and the month before
C19_Witness ==
    /\ PeriodStartCalled
    /\ result.args.group_by = "week"
    /\ CivilFromDays(result.args.purchase_date) = <<2025, 1, 1>>
    /\ CivilFromDays(result.points[1]) = <<2024, 12, 30>>

\* basket_inflation_index returned points
BasketReturned ==
    /\ result.fn = "basket_inflation_index"
    /\ result.raised = ""
    /\ Len(result.points) > 0

\* C20: when basket_inflation_index returns points, its kpi has periods =
\* the number of points; last_period, index_last and coverage_last are the
\* period, index and coverage of the last point; inflation_total is
\* index_last - 100; base_period is the base period of the index;
\* items_in_base is the number of products of the basket and
\* items_total_base_weight the sum of their base weights
C20_KpiMatchesPoints ==
    BasketReturned =>
        LET k    == Val(result.kpi)
            last == result.points[Len(result.points)]
            df   == Prepared(MantBits)
            b    == BasePeriodOf(Prepared(MantBits), result.args)
        IN  /\ k.periods = Len(result.points)
            /\ k.last_period = Some(last.period)
            /\ k.index_last = Some(last.index)
            /\ k.coverage_last = last.coverage
            /\ k.inflation_total
                  = Some(FSub(MantBits, Val(k.index_last), Hundred))
            /\ k.base_period = Some(IsoDate(b))
            /\ k.items_in_base = Cardinality(BasketOf(df, b, MantBits))
            /\ k.items_total_base_weight
                  = FSum(MantBits,
                         WeightsOf(df, b, BasketOf(df, b, MantBits),
                                   MantBits))

\* C20: the basket index returned two points that differ in index and in
\* coverage, over a basket of two products
C20_Witness ==
    /\ BasketReturned
    /\ Len(result.points) = 2
    /\ result.points[1].index # result.points[2].index
    /\ result.points[1].coverage # result.points[2].coverage
    /\ Val(result.kpi).items_in_base = 2

\* product_store_price_stats returned
StatsReturned ==
    /\ result.fn = "product_store_price_stats"
    /\ result.raised = ""

\* summed quantity and spend of the prepared rows of store s
StoreQty(df, s, P) ==
    GroupSum(P, SeqMap(LAMBDA r : r.quantity,
                       SelectSeq(df, LAMBDA r : r.store_id = s)))

StoreSpend(df, s, P) ==
    GroupSum(P, SeqMap(LAMBDA r : r.spend,
                       SelectSeq(df, LAMBDA r : r.store_id = s)))

\* the stores with positive summed quantity and spend
StoresBought(df, P) ==
    {s \in Stores : RPos(StoreQty(df, s, P)) /\ RPos(StoreSpend(df, s, P))}

\* kpi.get(key): None when the kpi has no such key
KpiGet(k, key) == IF key \in DOMAIN k THEN k[key] ELSE None

ComputeAgain(fn, store, a, P) ==
    CASE fn = "product_inflation_index"
            -> product_inflation_index(store, a, P)
      [] fn = "basket_inflation_index"
            -> basket_inflation_index(store, a, P)
      [] fn = "category_inflation_index"
            -> category_inflation_index(store, a, P)
      [] fn = "store_inflation_index"
            -> store_inflation_index(store, a, P)
      [] fn = "product_store_price_stats"
            -> product_store_price_stats(store, a, P)
      [] OTHER
            -> inflation_contributions(store, a, P)

----------------------------------------------------------------------------
(* C23: the promo fields of stored purchases                                *)

UpdateReturned ==
    result.fn = "update_purchase" /\ result.raised = ""

\* the stored purchase of the id the update named
UpdatedPurchase ==
    CHOOSE p \in Range(db) : p.id = result.args.purchase_id

\* C23: after any sequence of create_purchase and update_purchase every
\* stored purchase with is_promo False has promo_type None and
\* regular_unit_price None; an update that supplies promo_type or
\* regular_unit_price leaves the purchase with is_promo True (and the
\* supplied value), and an update that supplies only is_promo False leaves
\* it with both promo fields None.
C23_PromoFieldsConsistent ==
    /\ \A i \in 1..Len(db) :
          ~db[i].is_promo => /\ IsNone(db[i].promo_type)
                             /\ IsNone(db[i].regular_unit_price)
    /\ UpdateReturned =>
          LET a == result.args
              p == UpdatedPurchase
          IN  /\ ~IsNone(a.promo_type) =>
                    p.is_promo /\ p.promo_type = a.promo_type
              /\ ~IsNone(a.regular_unit_price) =>
                    p.is_promo /\ p.regular_unit_price = a.regular_unit_price
              /\ (a.is_promo = Some(FALSE) /\ IsNone(a.promo_type)
                    /\ IsNone(a.regular_unit_price)) =>
                    /\ ~p.is_promo
                    /\ IsNone(p.promo_type)
                    /\ IsNone(p.regular_unit_price)

\* the purchase created with a promo type and a regular price is updated
\* with is_promo False alone
C23_Witness ==
    /\ UpdateReturned
    /\ result.args.is_promo = Some(FALSE)
    /\ IsNone(result.args.promo_type)
    /\ IsNone(result.args.regular_unit_price)
    /\ UpdatedPurchase.product_id = 2
    /\ ~UpdatedPurchase.is_promo

----------------------------------------------------------------------------
(* C24: calls with values that do not pass the validators                   *)

NotPositive(opt) == ~IsNone(opt) /\ Val(opt) <= 0

\* the call recorded in r is one the claim names
InvalidCall(r) ==
    \/ /\ r.fn = "create_purchase"
       /\ r.args.quantity <= 0 \/ r.args.price <= 0
    \/ /\ r.fn = "update_purchase"
       /\ \/ ~IsNone(r.args.purchase_date) /\ Val(r.args.purchase_date) > Today
          \/ NotPositive(r.args.total_price)
          \/ NotPositive(r.args.quantity)
          \/ NotPositive(r.args.regular_unit_price)

\* C24: create_purchase with a quantity or a price that is not positive,
\* and update_purchase with a purchase_date in the future or a total_price,
\* quantity or regular_unit_price that is not positive, raise ValueError
\* and leave the stored purchases unchanged.
C24_InvalidRaises ==
    [][(Idle /\ InvalidCall(result')) =>
          /\ result'.raised = "ValueError"
          /\ db' = db]_vars

\* an update of a stored purchase with a date in the future has raised
C24_Witness ==
    /\ result.fn = "update_purchase"
    /\ result.args.purchase_date = Some(Today + 1)
    /\ result.raised = "ValueError"
    /\ \E i \in 1..Len(db) : db[i].id = result.args.purchase_id

----------------------------------------------------------------------------
(* C25: the unit price of a stored purchase                                 *)

\* a / d rounded to an integer, ties away from zero (a >= 0, d > 0)
RoundHalfUp(a, d) == (2 * a + d) \div (2 * d)

\* money_div of the tests: total / qty in cents, ROUND_HALF_UP
money_div(total, qty) == RoundHalfUp(total * 1000, qty)

PurchaseReturned ==
    result.fn = "get_purchase_by_id" /\ result.raised = ""

\* C25: for every stored purchase with quantity > 0, Purchase.unit_price
\* equals total_price / quantity rounded to two decimal places with exact
\* ties rounded half up (money_div), for total_price with 2 decimals and
\* quantity with 3 decimals.
C25_UnitPriceHalfUp ==
    PurchaseReturned =>
        LET p == result.points[1]
        IN  p.quantity > 0 =>
                p.unit_price = money_div(p.total_price, p.quantity)

----------------------------------------------------------------------------
(* C26: the contribution retry of the GUI                                   *)

\* degenerate as the claim states it: base_period equals target_period, or
\* no points, or the maximum absolute contribution is below 1e-9
Degenerate(res) ==
    \/ /\ ~IsNone(res.kpi)
       /\ Val(res.kpi).base_period = Val(res.kpi).target_period
    \/ Len(res.points) = 0
    \/ \A i \in 1..Len(res.points) :
          BelowThreshold(res.points[i].contribution)

\* the position of the requested granularity in year, month, week, day
Requested(a) == CHOOSE i \in 1..4 : order[i] = a.group_by

FallbackReturned ==
    result.fn = "_contrib_with_fallback" /\ result.pc = "returned"

FallbackFinished == result.fn = "_contrib_with_fallback" /\ result.pc # "loop"

FallbackCalls ==
    LET c == result.calls
        n == Len(c)
        a == result.args
    IN  /\ n <= 4
        /\ \A i \in 1..n :
              /\ c[i].group_by =
                    <<"year", "month", "week", "day">>[Requested(a) + i - 1]
              /\ c[i].res = inflation_contributions(db,
                                EngineArgs(a, c[i].group_by), MantBits)
        /\ \A i \in 1..(n - 1) :
              c[i].res.raised = "" /\ Degenerate(c[i].res)
        /\ result.pc = "loop" =>
              \A i \in 1..n : c[i].res.raised = "" /\ Degenerate(c[i].res)
        /\ result.pc = "raised" => n >= 1 /\ c[n].res.raised = result.raised
        /\ result.pc = "returned" =>
              /\ n >= 1
              /\ c[n].res.raised = ""
              /\ result.points = c[n].res.points
              /\ result.kpi = c[n].res.kpi
              /\ IF Degenerate(c[n].res)
                 THEN c[n].group_by = "day" /\ result.used = "day"
                 ELSE result.used = c[n].group_by

\* C26: _contrib_with_fallback calls inflation_contributions with group_by
\* in the order year, month, week, day from the requested granularity on,
\* each at most once and at most 4 times in all; it stops right after the
\* first result that is not degenerate and returns it with its group_by;
\* when every attempt is degenerate it ends after the 'day' attempt and
\* returns that result labelled 'day'.  Every call ends.
C26_FallbackOrder ==
    /\ [](result.fn = "_contrib_with_fallback" => FallbackCalls)
    /\ InLoop ~> FallbackFinished

\* month and week give contributions of zero between different periods, and
\* the third attempt, 'day', is returned with a contribution that is not
C26_Witness ==
    /\ FallbackReturned
    /\ result.args.group_by = "month"
    /\ Len(result.calls) = 3
    /\ Val(result.calls[1].res.kpi).base_period
          # Val(result.calls[1].res.kpi).target_period
    /\ Len(result.calls[1].res.points) > 0
    /\ result.used = "day"
    /\ ~Degenerate(result.calls[3].res)

\* every attempt from 'year' on is degenerate: four calls, labelled 'day'
C26_WitnessAllDegenerate ==
    /\ FallbackReturned
    /\ Len(result.calls) = 4
    /\ Len(db) > 0
    /\ Degenerate(result.calls[4].res)

----------------------------------------------------------------------------
(* C27: deletes of entities that are in use                                 *)

DeleteFns ==
    {"delete_product", "delete_store", "delete_unit", "delete_category"}

\* the table of the catalog fn deletes from
TableOf(fn) ==
    CASE fn = "delete_product"  -> "products"
      [] fn = "delete_store"    -> "stores"
      [] fn = "delete_unit"     -> "units"
      [] fn = "delete_category" -> "categories"

\* the entity id of fn's table is referenced: a product or a store by a
\* purchase, a unit or a category by a product
Referenced(fn, id) ==
    CASE fn = "delete_product"  -> \E i \in 1..Len(db) : db[i].product_id = id
      [] fn = "delete_store"    -> \E i \in 1..Len(db) : db[i].store_id = id
      [] fn = "delete_unit"     -> \E p \in catalog.products : p.unit_id = id
      [] fn = "delete_category" ->
            \E p \in catalog.products : p.category_id = Some(id)

\* the catalog c without the entity id of table t, everything else as it is
Without(c, t, id) ==
    [products   |-> IF t = "products"
                    THEN {p \in c.products : p.id # id} ELSE c.products,
     stores     |-> IF t = "stores" THEN c.stores \ {id} ELSE c.stores,
     units      |-> IF t = "units" THEN c.units \ {id} ELSE c.units,
     categories |-> IF t = "categories"
                    THEN c.categories \ {id} ELSE c.categories]

\* C27: delete_product and delete_store on an entity referenced by a
\* purchase, and delete_unit and delete_category on an entity referenced
\* by a product, raise ObjectInUseError and delete nothing; on an existing
\* entity that is not referenced the delete removes exactly that entity.
C27_SafeDelete ==
    [][(Idle /\ result'.fn \in DeleteFns) =>
          LET fn == result'.fn
              id == result'.args.item_id
          IN  /\ db' = db
              /\ (id \in IdsOf(catalog, TableOf(fn)) /\ Referenced(fn, id)) =>
                    /\ result'.raised = "ObjectInUseError"
                    /\ catalog' = catalog
              /\ (id \in IdsOf(catalog, TableOf(fn)) /\ ~Referenced(fn, id)) =>
                    /\ result'.raised = ""
                    /\ catalog' = Without(catalog, TableOf(fn), id)
                    /\ catalog' # catalog]_vars

\* product 3, which no purchase names, has been deleted, and the delete of
\* store 1, which a purchase names, has been refused
C27_Witness ==
    /\ result.fn = "delete_store"
    /\ result.args.item_id = 1
    /\ result.raised = "ObjectInUseError"
    /\ \E i \in 1..Len(db) : db[i].store_id = 1
    /\ 1 \in catalog.stores
    /\ {p.id : p \in catalog.products} = {1, 2}

\* unit 2 is deleted once product 3, its only product, is gone
C27_WitnessUnitFreed ==
    /\ result.fn = "delete_unit"
    /\ result.args.item_id = 2
    /\ result.raised = ""
    /\ 2 \notin catalog.units

----------------------------------------------------------------------------
(* C28: the contributions against the basket index                          *)

\* the products matched by the contributions call, in arithmetic P
MatchedP(P) ==
    MatchedIn(Prepared(P), SetMin(PeriodsOf(Prepared(P))),
              SetMax(PeriodsOf(Prepared(P))), P)

\* inflation_contributions returned points and left no matched product (by
\* product) or category (by category) out
ContribUntruncated(P) ==
    /\ result.fn = "inflation_contributions"
    /\ result.raised = ""
    /\ Len(result.points) > 0
    /\ IF result.args.by = "product"
       THEN result.args.top >= Cardinality(MatchedP(P))
       ELSE result.args.top >= Cardinality({CatIdOf(p) : p \in MatchedP(P)})

\* the contributions of the returned points, added in their order
ContribTotal(P) ==
    FSum(P, SeqMap(LAMBDA r : r.contribution, result.points))

\* the kpi of the basket index called with the arguments of the
\* contributions call
BasketKpi(P) == Val(basket_inflation_index(db, result.args, P).kpi)

\* the kpi of the product index of product p under the same arguments
ProductKpiOf(p, P) ==
    Val(product_inflation_index(db, [result.args EXCEPT
                                        !.product_id = Some(p)], P).kpi)

\* the prepared rows are of one product
SingleProduct(P) ==
    Cardinality({Prepared(P)[i].product_id : i \in 1..Len(Prepared(P))}) = 1

\* the relation of C28 in arithmetic P, with Same(total, x, index) for "the
\* total of the contributions equals x", an amount read off the index
TotalsAgree(P, Same(_, _, _)) ==
    LET OnProduct(t, k) ==
            Same(t, FSub(P, k.last_index_100, Hundred), k.last_index_100)
        OnBasket(df, m, t, k) ==
            /\ k.base_period = Val(result.kpi).base_period
            /\ k.last_period = Val(result.kpi).target_period
            /\ Same(t, Val(k.inflation_total), Val(k.index_last))
            /\ Cardinality({df[i].product_id : i \in 1..Len(df)}) = 1 =>
                  \A p \in m : OnProduct(t, ProductKpiOf(p, P))
        OnMatched(df, m) ==
            result.args.top >= (IF result.args.by = "product"
                                THEN Cardinality(m)
                                ELSE Cardinality({CatIdOf(p) : p \in m})) =>
                OnBasket(df, m, ContribTotal(P), BasketKpi(P))
        OnFrame(df) ==
            OnMatched(df, MatchedIn(df, SetMin(PeriodsOf(df)),
                                    SetMax(PeriodsOf(df)), P))
    IN  (result.fn = "inflation_contributions" /\ result.raised = ""
            /\ Len(result.points) > 0) => OnFrame(Prepared(P))

\* |a - b| <= k * 2^-MantBits * (100 + index)
NearIndex(a, b, index, k) ==
    RLe(FMul(0, RAbs(FSub(0, a, b)), <<Pow2(MantBits), 1>>),
        FMul(0, <<k, 1>>, FAdd(0, Hundred, RAbs(index))))

\* C28 as stated: whenever inflation_contributions returns points, the sum
\* of the contributions of all matched products (by product with top not
\* below their number, or by category untruncated) equals the
\* inflation_total (index_last - 100) of the basket index for the same
\* filters, group_by, price_mode and promo_mode; the basket index's
\* base_period and last_period equal the contributions' base_period and
\* target_period; for a single-product dataset the sum also equals the
\* product index's last index_100 - 100.
C28_TotalEqualsInflation ==
    TotalsAgree(MantBits, LAMBDA t, x, index : t = x)

\* C28 amended: as stated, with the sums equal up to floating-point
\* rounding: within 4 units in the last place of 100 + index_last.
C28_TotalNearInflation ==
    TotalsAgree(MantBits, LAMBDA t, x, index : NearIndex(t, x, index, 4))

\* C28 in exact arithmetic, where the equality is an identity
C28_TotalEqualsInflationExact ==
    TotalsAgree(0, LAMBDA t, x, index : t = x)

\* two matched products are returned and their contributions do not add
\* up to the float inflation_total
C28_Witness ==
    /\ ContribUntruncated(MantBits)
    /\ Cardinality(MatchedP(MantBits)) = 2
    /\ ContribTotal(MantBits) # Val(BasketKpi(MantBits).inflation_total)

\* a dataset of one product
C28_WitnessSingle ==
    /\ ContribUntruncated(MantBits)
    /\ SingleProduct(MantBits)
    /\ Val(BasketKpi(MantBits).inflation_total) # Zero

----------------------------------------------------------------------------
(* C29: the basket index of one product against the product index           *)

\* basket_inflation_index returned for product_ids = [p]
BasketOfOne ==
    /\ result.fn = "basket_inflation_index"
    /\ result.raised = ""
    /\ ~IsNone(result.args.product_ids)
    /\ Cardinality(Val(result.args.product_ids)) = 1

\* the points of product_inflation_index(product_id = p) under the
\* arguments of the basket call
ProductIndexPoints(P) ==
    product_inflation_index(db,
        [result.args EXCEPT
            !.product_id = Some(CHOOSE p \in Val(result.args.product_ids) :
                                    TRUE),
            !.product_ids = None], P).points

\* the relation of C29 in arithmetic P, with Same(index, index_100)
OneProductBasket(P, Same(_, _)) ==
    LET OnPoints(pts) ==
            /\ Len(result.points) = Len(pts)
            /\ \A i \in 1..Len(pts) :
                  /\ result.points[i].period = pts[i].period
                  /\ result.points[i].coverage = One
                  /\ result.points[i].items = 1
                  /\ Same(result.points[i].index, pts[i].index_100)
    IN  BasketOfOne => OnPoints(ProductIndexPoints(P))

\* C29 as stated: for a dataset restricted to a single product p, the
\* basket index over product_ids = [p] and product_inflation_index of p
\* emit the same periods, every basket point has coverage 1 and items 1,
\* and its index equals the product's index_100 of the period.
C29_BasketEqualsProductIndex ==
    OneProductBasket(MantBits, LAMBDA x, y : x = y)

\* C29 amended: as stated, with the index equal to index_100 up to
\* floating-point rounding (within 4 units in the last place of
\* 100 + index).
C29_BasketNearProductIndex ==
    OneProductBasket(MantBits, LAMBDA x, y : NearIndex(x, y, y, 4))

\* C29 in exact arithmetic, where the two indices are the same number
C29_BasketEqualsProductIndexExact ==
    OneProductBasket(0, LAMBDA x, y : x = y)

\* the basket of product 1 has points in two periods or more, and one whose
\* index is not the float of the product's index_100
C29_Witness ==
    /\ BasketOfOne
    /\ Val(result.args.product_ids) = {1}
    /\ Len(result.points) >= 2
    /\ \E i \in 1..Len(result.points) :
          result.points[i].index # ProductIndexPoints(MantBits)[i].index_100

----------------------------------------------------------------------------
(* C30: the price mode under promo_mode 'exclude'                           *)

OtherPriceMode(pm) == IF pm = "paid" THEN "regular" ELSE "paid"

\* a compute function has been called with promo_mode 'exclude'
ExcludeCalled ==
    result.fn \in ComputeFns /\ result.args.promo_mode = "exclude"

\* what the same call returns in the other price mode
InOtherPriceMode ==
    ComputeAgain(result.fn, db,
                 [result.args EXCEPT !.price_mode = OtherPriceMode(@)],
                 MantBits)

\* C30: for any store reachable through create_purchase and
\* update_purchase, any filters and group_by, every compute function called
\* with promo_mode 'exclude' returns the same result for price_mode
\* 'regular' as for price_mode 'paid'.
C30_ExcludeIgnoresPriceMode ==
    ExcludeCalled =>
        result = Outcome(result.fn, result.args, InOtherPriceMode)

\* a purchase created with a regular price has been switched back to
\* is_promo False, another still carries its regular price, and a call in
\* price mode 'regular' returned points of two periods or more
C30_Witness ==
    /\ ExcludeCalled
    /\ result.args.price_mode = "regular"
    /\ result.fn = "product_inflation_index"
    /\ Len(result.points) >= 2
    /\ \E i \in 1..Len(db) :
          db[i].purchase_date = D(2, 10) /\ ~db[i].is_promo
    /\ \E i \in 1..Len(db) :
          db[i].is_promo /\ ~IsNone(db[i].regular_unit_price)

====
